---- MODULE Spec2Model ----
(***************************************************************************)
(* libmkvtag: reading and writing Matroska tags in place.                  *)
(*                                                                         *)
(* The file is a sequence of bytes.  Every reader and writer below works   *)
(* on the bytes: VINTs, element headers, typed contents, the Tags codec,   *)
(* the structure navigator and the three placement strategies are          *)
(* translated from the C sources function by function.  File offsets are   *)
(* 0-based as in the C code; the byte at offset p of file f is f[p + 1].   *)
(***************************************************************************)
EXTENDS Integers, Sequences, FiniteSets, TLC

(***************************************************************************)
(* Error codes (mkvtag_error.h)                                            *)
(***************************************************************************)
MKVTAG_OK == 0
MKVTAG_ERR_INVALID_ARG == -1
MKVTAG_ERR_IO == -3
MKVTAG_ERR_NOT_OPEN == -4
MKVTAG_ERR_ALREADY_OPEN == -5
MKVTAG_ERR_READ_ONLY == -6
MKVTAG_ERR_NOT_EBML == -10
MKVTAG_ERR_NOT_MKV == -11
MKVTAG_ERR_CORRUPT == -12
MKVTAG_ERR_TRUNCATED == -13
MKVTAG_ERR_INVALID_VINT == -14
MKVTAG_ERR_VINT_OVERFLOW == -15
MKVTAG_ERR_NO_TAGS == -20
MKVTAG_ERR_TAG_NOT_FOUND == -21
MKVTAG_ERR_TAG_TOO_LARGE == -22
MKVTAG_ERR_NO_SPACE == -30

(***************************************************************************)
(* Element IDs (ebml_ids.h)                                                *)
(***************************************************************************)
EBML_ID_EBML == 440786851            \* 0x1A45DFA3
EBML_ID_DOCTYPE == 17026             \* 0x4282
EBML_ID_VOID == 236                  \* 0xEC
MKV_ID_SEGMENT == 408125543          \* 0x18538067
MKV_ID_SEEKHEAD == 290298740         \* 0x114D9B74
MKV_ID_SEEK == 19899                 \* 0x4DBB
MKV_ID_SEEK_ID == 21419              \* 0x53AB
MKV_ID_SEEK_POSITION == 21420        \* 0x53AC
MKV_ID_INFO == 357149030             \* 0x1549A966
MKV_ID_MUXING_APP == 19840           \* 0x4D80
MKV_ID_CLUSTER == 524531317          \* 0x1F43B675
MKV_ID_TIMECODE == 231               \* 0xE7
MKV_ID_TRACKS == 374648427           \* 0x1654AE6B
MKV_ID_CUES == 475249515             \* 0x1C53BB6B
MKV_ID_ATTACHMENTS == 423732329      \* 0x1941A469
MKV_ID_CHAPTERS == 272869232         \* 0x1043A770
MKV_ID_TAGS == 307544935             \* 0x1254C367
MKV_ID_TAG == 29555                  \* 0x7373
MKV_ID_TARGETS == 25536              \* 0x63C0
MKV_ID_TARGET_TYPE_VALUE == 26826    \* 0x68CA
MKV_ID_TARGET_TYPE == 25546          \* 0x63CA
MKV_ID_TAG_TRACK_UID == 25541        \* 0x63C5
MKV_ID_TAG_EDITION_UID == 25545      \* 0x63C9
MKV_ID_TAG_CHAPTER_UID == 25540      \* 0x63C4
MKV_ID_TAG_ATTACHMENT_UID == 25542   \* 0x63C6
MKV_ID_SIMPLE_TAG == 26568           \* 0x67C8
MKV_ID_TAG_NAME == 17827             \* 0x45A3
MKV_ID_TAG_LANGUAGE == 17530         \* 0x447A
MKV_ID_TAG_LANGUAGE_BCP47 == 17531   \* 0x447B
MKV_ID_TAG_DEFAULT == 17540          \* 0x4484
MKV_ID_TAG_STRING == 17543           \* 0x4487
MKV_ID_TAG_BINARY == 17541           \* 0x4485

MKVTAG_TARGET_ALBUM == 50
MKVTAG_TARGET_TRACK == 30

(***************************************************************************)
(* Optional values: a C pointer that may be NULL is the empty tuple, a     *)
(* pointer to x is the one-element tuple <<x>>.                            *)
(***************************************************************************)
NULL == << >>
Some(x) == << x >>
IsNull(p) == p = << >>
Deref(p) == p[1]

\* The element of a one-element set.  Only({ E(x) : x \in { v } }) is E(v)
\* with v computed once: the use of a result kept in a local variable.
Only(S) == CHOOSE x \in S : TRUE

(***************************************************************************)
(* Big-endian byte strings                                                 *)
(***************************************************************************)
RECURSIVE BigEndian(_, _)
\* The n low-order bytes of value, most significant first
\* (the "for (i = n - 1; i >= 0; i--) data[i] = value & 0xFF; value >>= 8" loops).
BigEndian(value, n) ==
    IF n = 0 THEN << >>
    ELSE Append(BigEndian(value \div 256, n - 1), value % 256)

RECURSIVE FromBigEndian(_)
\* The "result = (result << 8) | buffer[i]" loops.
FromBigEndian(bytes) ==
    IF bytes = << >> THEN 0
    ELSE FromBigEndian(SubSeq(bytes, 1, Len(bytes) - 1)) * 256 + bytes[Len(bytes)]

Zeros(n) == [i \in 1..n |-> 0]

(***************************************************************************)
(* VINT codec (ebml_vint.c).  Model integers stay below 2^31, so the       *)
(* limits of the 5- to 8-byte encodings are never exceeded by a value.     *)
(***************************************************************************)
EBML_VINT_MAX_1 == 126
EBML_VINT_MAX_2 == 16382
EBML_VINT_MAX_3 == 2097150
EBML_VINT_MAX_4 == 268435454

\* max_value of ebml_vint_encode_fixed's switch, as the test value <= max_value
VintFits(value, length) ==
    CASE length = 1 -> value <= EBML_VINT_MAX_1
      [] length = 2 -> value <= EBML_VINT_MAX_2
      [] length = 3 -> value <= EBML_VINT_MAX_3
      [] length = 4 -> value <= EBML_VINT_MAX_4
      [] OTHER -> TRUE

ebml_vint_size(value) ==
    IF value <= EBML_VINT_MAX_1 THEN 1
    ELSE IF value <= EBML_VINT_MAX_2 THEN 2
    ELSE IF value <= EBML_VINT_MAX_3 THEN 3
    ELSE IF value <= EBML_VINT_MAX_4 THEN 4
    ELSE 5

ebml_vint_length(first_byte) ==
    IF first_byte >= 128 THEN 1
    ELSE IF first_byte >= 64 THEN 2
    ELSE IF first_byte >= 32 THEN 3
    ELSE IF first_byte >= 16 THEN 4
    ELSE IF first_byte >= 8 THEN 5
    ELSE IF first_byte >= 4 THEN 6
    ELSE IF first_byte >= 2 THEN 7
    ELSE IF first_byte >= 1 THEN 8
    ELSE 0

\* 0x80 >> (length - 1)
VintMarker(length) ==
    CASE length = 1 -> 128 [] length = 2 -> 64 [] length = 3 -> 32
      [] length = 4 -> 16 [] length = 5 -> 8 [] length = 6 -> 4
      [] length = 7 -> 2 [] OTHER -> 1

\* data holds exactly the bytes handed to the decoder (size = Len(data))
ebml_vint_decode(data) ==
    IF Len(data) = 0 THEN [err |-> MKVTAG_ERR_TRUNCATED]
    ELSE Only({
         IF length = 0 THEN [err |-> MKVTAG_ERR_INVALID_VINT]
         ELSE IF length > Len(data) THEN [err |-> MKVTAG_ERR_TRUNCATED]
         ELSE [err |-> MKVTAG_OK,
               value |-> FromBigEndian(
                   << data[1] % VintMarker(length) >> \o SubSeq(data, 2, length)),
               bytes_read |-> length]
         : length \in { ebml_vint_length(data[1]) } })

ebml_vint_encode_fixed(value, length) ==
    IF length < 1 \/ length > 8 THEN [err |-> MKVTAG_ERR_INVALID_ARG]
    ELSE IF ~VintFits(value, length) THEN [err |-> MKVTAG_ERR_VINT_OVERFLOW]
    ELSE Only({ [err |-> MKVTAG_OK,
                 data |-> << raw[1] + VintMarker(length) >> \o SubSeq(raw, 2, length)]
                : raw \in { BigEndian(value, length) } })

ebml_vint_encode(value) ==
    ebml_vint_encode_fixed(value, ebml_vint_size(value))

\* The all-ones data bits of a VINT of the given length.
ebml_vint_is_unknown(value, length) ==
    CASE length = 1 -> value = 127
      [] length = 2 -> value = 16383
      [] length = 3 -> value = 2097151
      [] length = 4 -> value = 268435455
      [] OTHER -> FALSE

ebml_id_size(id) ==
    IF id <= 255 THEN 1 ELSE IF id <= 65535 THEN 2 ELSE IF id <= 16777215 THEN 3 ELSE 4

\* Element IDs keep their marker bits: the raw big-endian bytes of the value.
ebml_id_encode(id) == BigEndian(id, ebml_id_size(id))

(***************************************************************************)
(* The VINT codec over the whole of uint64_t.  A uint64_t is kept as its   *)
(* eight bytes, most significant first, where the value may exceed what    *)
(* the integers of the rest of the model hold.                             *)
(***************************************************************************)
\* The mutation of EBML_VINT_MAX that counts the value with all data bits
\* set among the values of its length.
vint_max_with_reserved(length) ==
    Zeros(7 - (7 * length) \div 8)
    \o << 2^((7 * length) % 8) - 1 >>
    \o [i \in 1..((7 * length) \div 8) |-> 255]

\* EBML_VINT_MAX_1 .. EBML_VINT_MAX_8: (1ULL << 7 * length) - 2
EBML_VINT_MAX(length) ==
    LET full == (7 * length) \div 8
        top == 2^((7 * length) % 8) - 1
    IN IF full = 0 THEN Zeros(7) \o << top - 1 >>
       ELSE Zeros(7 - full) \o << top >> \o [i \in 1..(full - 1) |-> 255] \o << 254 >>

\* a <= b for two uint64_t
U64LessEq(a, b) ==
    \/ a = b
    \/ \E i \in 1..8 : a[i] < b[i] /\ \A j \in 1..(i - 1) : a[j] = b[j]

ebml_vint_size_u64(value) ==
    IF U64LessEq(value, EBML_VINT_MAX(1)) THEN 1
    ELSE IF U64LessEq(value, EBML_VINT_MAX(2)) THEN 2
    ELSE IF U64LessEq(value, EBML_VINT_MAX(3)) THEN 3
    ELSE IF U64LessEq(value, EBML_VINT_MAX(4)) THEN 4
    ELSE IF U64LessEq(value, EBML_VINT_MAX(5)) THEN 5
    ELSE IF U64LessEq(value, EBML_VINT_MAX(6)) THEN 6
    ELSE IF U64LessEq(value, EBML_VINT_MAX(7)) THEN 7
    ELSE IF U64LessEq(value, EBML_VINT_MAX(8)) THEN 8
    ELSE 0

\* ebml_vint_encode with the ebml_vint_encode_fixed it ends in
ebml_vint_encode_u64(value) ==
    LET length == ebml_vint_size_u64(value)
        \* the "data[i] = value & 0xFF; value >>= 8" loop
        raw == SubSeq(value, 9 - length, 8)
        marker == VintMarker(length)
        \* data[0] |= marker
        first == IF (raw[1] \div marker) % 2 = 1 THEN raw[1] ELSE raw[1] + marker
    IN IF length = 0 THEN [err |-> MKVTAG_ERR_VINT_OVERFLOW]
       ELSE IF ~U64LessEq(value, EBML_VINT_MAX(length))
       THEN [err |-> MKVTAG_ERR_VINT_OVERFLOW]
       ELSE [err |-> MKVTAG_OK, data |-> << first >> \o Tail(raw),
             bytes_written |-> length]

ebml_vint_decode_u64(data) ==
    LET length == ebml_vint_length(data[1]) IN
    IF Len(data) = 0 THEN [err |-> MKVTAG_ERR_TRUNCATED]
    ELSE IF length = 0 THEN [err |-> MKVTAG_ERR_INVALID_VINT]
    ELSE IF length > Len(data) THEN [err |-> MKVTAG_ERR_TRUNCATED]
    ELSE [err |-> MKVTAG_OK,
          value |-> Zeros(8 - length) \o << data[1] % VintMarker(length) >>
                    \o SubSeq(data, 2, length),
          bytes_read |-> length]

\* value == (EBML_VINT_UNKNOWN_n & mask): 7 * length one bits
ebml_vint_is_unknown_u64(value, length) ==
    /\ length \in 1..8
    /\ value = Zeros(7 - (7 * length) \div 8)
               \o << 2^((7 * length) % 8) - 1 >>
               \o [i \in 1..((7 * length) \div 8) |-> 255]

(***************************************************************************)
(* Buffered stream (file_io.c), reduced to what the callers observe: a     *)
(* read of n bytes at pos succeeds iff the bytes exist, a write at pos     *)
(* overwrites and extends the file.                                        *)
(***************************************************************************)
file_size(f) == Len(f)

\* file_read of n bytes at 0-based offset pos, once known to be in range
ReadBytes(f, pos, n) == SubSeq(f, pos + 1, pos + n)

CanRead(f, pos, n) == pos >= 0 /\ pos + n <= Len(f)

\* file_seek to pos followed by file_write of data
file_write(f, pos, data) ==
    LET gap == IF pos > Len(f) THEN Zeros(pos - Len(f)) ELSE << >>
        head == SubSeq(f, 1, pos) \o gap
        tail == SubSeq(f, pos + Len(data) + 1, Len(f))
    IN head \o data \o tail

(***************************************************************************)
(* Element framer (ebml_reader.c)                                          *)
(***************************************************************************)
EBML_SIZE_UNKNOWN == 2147483647      \* stands for UINT64_MAX

\* The position the stream is left at when a read of n bytes at pos fails.
AfterShortRead(f, pos) == IF pos > Len(f) THEN pos ELSE Len(f)

ebml_read_element_header(f, start_pos) ==
    IF ~CanRead(f, start_pos, 1)
    THEN [err |-> MKVTAG_ERR_TRUNCATED, pos |-> AfterShortRead(f, start_pos)]
    ELSE Only({
    IF id_length = 0 \/ id_length > 4
    THEN [err |-> MKVTAG_ERR_INVALID_VINT, pos |-> start_pos + 1]
    ELSE IF ~CanRead(f, start_pos + 1, id_length - 1)
    THEN [err |-> MKVTAG_ERR_TRUNCATED, pos |-> AfterShortRead(f, start_pos + 1)]
    ELSE IF ~CanRead(f, start_pos + id_length, 1)
    THEN [err |-> MKVTAG_ERR_TRUNCATED, pos |-> AfterShortRead(f, start_pos + id_length)]
    ELSE Only({
    IF size_length = 0 \/ size_length > 8
    THEN [err |-> MKVTAG_ERR_INVALID_VINT, pos |-> size_pos + 1]
    ELSE IF ~CanRead(f, size_pos + 1, size_length - 1)
    THEN [err |-> MKVTAG_ERR_TRUNCATED, pos |-> AfterShortRead(f, size_pos + 1)]
    ELSE Only({
         LET unknown == ebml_vint_is_unknown(size, size_length) IN
         [err |-> MKVTAG_OK,
          pos |-> size_pos + size_length,
          id |-> FromBigEndian(ReadBytes(f, start_pos, id_length)),
          id_length |-> id_length,
          size |-> IF unknown THEN EBML_SIZE_UNKNOWN ELSE size,
          size_length |-> size_length,
          is_unknown_size |-> unknown,
          data_offset |-> size_pos + size_length,
          end_offset |-> IF unknown THEN file_size(f)
                         ELSE size_pos + size_length + size]
    : size \in { ebml_vint_decode(ReadBytes(f, size_pos, size_length)).value } })
    : size_pos \in { start_pos + id_length },
      size_length \in { ebml_vint_length(f[start_pos + id_length + 1]) } })
    : id_length \in { ebml_vint_length(f[start_pos + 1]) } })

\* ebml_peek_element_header restores the position: the same header, no motion.
ebml_peek_element_header(f, pos) == ebml_read_element_header(f, pos)

\* The position after ebml_skip_element called at position pos: an
\* unknown-size element is refused and the stream does not move.
ebml_skip_element(element, pos) ==
    IF element.is_unknown_size THEN pos ELSE element.end_offset

ebml_at_element_end(pos, parent) == pos >= parent.end_offset

(***************************************************************************)
(* Typed content readers (ebml_reader.c)                                   *)
(***************************************************************************)
ebml_read_uint(f, element) ==
    IF element.size > 8 THEN [err |-> MKVTAG_ERR_VINT_OVERFLOW]
    ELSE IF element.size = 0 THEN [err |-> MKVTAG_OK, value |-> 0]
    ELSE IF ~CanRead(f, element.data_offset, element.size)
    THEN [err |-> MKVTAG_ERR_TRUNCATED]
    ELSE [err |-> MKVTAG_OK,
          value |-> FromBigEndian(ReadBytes(f, element.data_offset, element.size))]

RECURSIVE CString(_)
\* A byte buffer read as a C string: the bytes before the first NUL.
CString(bytes) ==
    IF bytes = << >> \/ bytes[1] = 0 THEN << >>
    ELSE << bytes[1] >> \o CString(Tail(bytes))

\* ebml_read_string into a buffer of buffer_size bytes
ebml_read_string(f, element, buffer_size) ==
    IF element.size >= buffer_size THEN [err |-> MKVTAG_ERR_TAG_TOO_LARGE]
    ELSE IF element.size = 0 THEN [err |-> MKVTAG_OK, string |-> << >>]
    ELSE IF ~CanRead(f, element.data_offset, element.size)
    THEN [err |-> MKVTAG_ERR_TRUNCATED]
    ELSE [err |-> MKVTAG_OK,
          string |-> CString(ReadBytes(f, element.data_offset, element.size))]

ebml_read_string_alloc(f, element) ==
    ebml_read_string(f, element, element.size + 1)

\* ebml_read_binary into a buffer of buffer_size bytes
ebml_read_binary(f, element, buffer_size) ==
    LET to_read == IF element.size < buffer_size THEN element.size ELSE buffer_size IN
    IF ~CanRead(f, element.data_offset, to_read) THEN [err |-> MKVTAG_ERR_TRUNCATED]
    ELSE [err |-> MKVTAG_OK, data |-> ReadBytes(f, element.data_offset, to_read)]

\* data is NULL for an empty element, else a pointer to the bytes
ebml_read_binary_alloc(f, element) ==
    IF element.size = 0 THEN [err |-> MKVTAG_OK, data |-> NULL]
    ELSE Only({ IF r.err # MKVTAG_OK THEN [err |-> r.err]
                ELSE [err |-> MKVTAG_OK, data |-> Some(r.data)]
                : r \in { ebml_read_binary(f, element, element.size) } })

(***************************************************************************)
(* Writers (ebml_writer.c).  Each returns the bytes it appends.  Sizes in  *)
(* the model are far below 2^56 - 1, so write_size never overflows.        *)
(***************************************************************************)
uint_data_size(value) ==
    IF value = 0 THEN 0
    ELSE IF value <= 255 THEN 1
    ELSE IF value <= 65535 THEN 2
    ELSE IF value <= 16777215 THEN 3
    ELSE 4

write_id(id) == ebml_id_encode(id)

write_size(size) == ebml_vint_encode(size).data

ebml_write_master_element_header(id, content_size) ==
    write_id(id) \o write_size(content_size)

ebml_write_uint_element(id, value) ==
    Only({ write_id(id) \o write_size(data_size) \o BigEndian(value, data_size)
           : data_size \in { IF uint_data_size(value) = 0 THEN 1
                             ELSE uint_data_size(value) } })

ebml_write_string_element(id, str) ==
    write_id(id) \o write_size(Len(str)) \o str

ebml_write_binary_element(id, data) ==
    write_id(id) \o write_size(Len(data)) \o data

\* The mutation of VoidTail that takes the size VINT to be one byte long
\* and encodes the content size in as many bytes as it needs.
void_tail_minimal(total_size, vint_len) ==
    LET enc == ebml_vint_encode(total_size - 2)
    IN [err |-> MKVTAG_OK, data |-> enc.data \o Zeros(total_size - 2)]

RECURSIVE VoidTail(_, _)
\* The "for (vint_len = 1; vint_len <= 8; vint_len++)" loop of
\* ebml_write_void_element: the size VINT and the zero content.
VoidTail(total_size, vint_len) ==
    IF vint_len > 8 THEN [err |-> MKVTAG_ERR_VINT_OVERFLOW]
    ELSE IF total_size - 1 - vint_len < 0
    THEN \* content_size wraps to a huge uint64_t that no VINT length holds
         VoidTail(total_size, vint_len + 1)
    ELSE LET content_size == total_size - 1 - vint_len IN
         IF ebml_vint_size(content_size) <= vint_len
         THEN Only({ IF enc.err # MKVTAG_OK THEN [err |-> enc.err]
                     ELSE [err |-> MKVTAG_OK, data |-> enc.data \o Zeros(content_size)]
                     : enc \in { ebml_vint_encode_fixed(content_size, vint_len) } })
         ELSE VoidTail(total_size, vint_len + 1)

ebml_write_void_element(total_size) ==
    IF total_size < 2 THEN [err |-> MKVTAG_ERR_INVALID_ARG]
    ELSE Only({ IF t.err # MKVTAG_OK THEN [err |-> t.err]
                ELSE [err |-> MKVTAG_OK, data |-> << EBML_ID_VOID >> \o t.data]
                : t \in { VoidTail(total_size, 1) } })

(***************************************************************************)
(* Tag collections (mkvtag_types.h).  A linked list is a sequence, head    *)
(* first.  binary is NULL or a pointer to binary_size = Len bytes.         *)
(***************************************************************************)
NewSimpleTag ==
    [name |-> NULL, value |-> NULL, binary |-> NULL, language |-> NULL,
     is_default |-> 0, nested |-> << >>]

NewTag ==
    [target_type |-> 0, target_type_str |-> NULL, track_uids |-> << >>,
     edition_uids |-> << >>, chapter_uids |-> << >>, attachment_uids |-> << >>,
     simple_tags |-> << >>]

(***************************************************************************)
(* Tags parsing (mkv_tags.c).  No element written or accepted by the model *)
(* other than the Segment has unknown size, so where a loop ignores the    *)
(* result of ebml_skip_element the stream is taken to rest at the start of *)
(* the child's content in that case.                                       *)
(***************************************************************************)
TargetsChild(f, child, tag) ==
    CASE child.id = MKV_ID_TARGET_TYPE_VALUE ->
           LET r == ebml_read_uint(f, child) IN
           IF r.err = MKVTAG_OK THEN [tag EXCEPT !.target_type = r.value] ELSE tag
      [] child.id = MKV_ID_TARGET_TYPE ->
           LET r == ebml_read_string_alloc(f, child) IN
           IF r.err = MKVTAG_OK THEN [tag EXCEPT !.target_type_str = Some(r.string)] ELSE tag
      [] child.id = MKV_ID_TAG_TRACK_UID ->
           LET r == ebml_read_uint(f, child) IN
           IF r.err = MKVTAG_OK
           THEN [tag EXCEPT !.track_uids = Append(@, r.value)] ELSE tag
      [] child.id = MKV_ID_TAG_EDITION_UID ->
           LET r == ebml_read_uint(f, child) IN
           IF r.err = MKVTAG_OK
           THEN [tag EXCEPT !.edition_uids = Append(@, r.value)] ELSE tag
      [] child.id = MKV_ID_TAG_CHAPTER_UID ->
           LET r == ebml_read_uint(f, child) IN
           IF r.err = MKVTAG_OK
           THEN [tag EXCEPT !.chapter_uids = Append(@, r.value)] ELSE tag
      [] child.id = MKV_ID_TAG_ATTACHMENT_UID ->
           LET r == ebml_read_uint(f, child) IN
           IF r.err = MKVTAG_OK
           THEN [tag EXCEPT !.attachment_uids = Append(@, r.value)] ELSE tag
      [] OTHER -> tag

RECURSIVE TargetsLoop(_, _, _, _)
TargetsLoop(f, targets_elem, pos, tag) ==
    IF ebml_at_element_end(pos, targets_elem) THEN tag
    ELSE Only({ IF child.err # MKVTAG_OK THEN tag
                ELSE TargetsLoop(f, targets_elem,
                                 ebml_skip_element(child, child.data_offset),
                                 TargetsChild(f, child, tag))
                : child \in { ebml_read_element_header(f, pos) } })

parse_targets(f, targets_elem, tag) ==
    TargetsLoop(f, targets_elem, targets_elem.data_offset,
                [tag EXCEPT !.target_type = MKVTAG_TARGET_ALBUM])

RECURSIVE parse_simple_tag(_, _)
RECURSIVE SimpleTagLoop(_, _, _, _)

SimpleTagChild(f, child, stag) ==
    CASE child.id = MKV_ID_TAG_NAME ->
           LET r == ebml_read_string_alloc(f, child) IN
           IF r.err = MKVTAG_OK THEN [stag EXCEPT !.name = Some(r.string)] ELSE stag
      [] child.id = MKV_ID_TAG_STRING ->
           LET r == ebml_read_string_alloc(f, child) IN
           IF r.err = MKVTAG_OK THEN [stag EXCEPT !.value = Some(r.string)] ELSE stag
      [] child.id = MKV_ID_TAG_BINARY ->
           LET r == ebml_read_binary_alloc(f, child) IN
           IF r.err = MKVTAG_OK THEN [stag EXCEPT !.binary = r.data] ELSE stag
      [] child.id = MKV_ID_TAG_LANGUAGE \/ child.id = MKV_ID_TAG_LANGUAGE_BCP47 ->
           LET r == ebml_read_string_alloc(f, child) IN
           IF r.err = MKVTAG_OK THEN [stag EXCEPT !.language = Some(r.string)] ELSE stag
      [] child.id = MKV_ID_TAG_DEFAULT ->
           LET r == ebml_read_uint(f, child) IN
           IF r.err = MKVTAG_OK THEN [stag EXCEPT !.is_default = r.value] ELSE stag
      [] child.id = MKV_ID_SIMPLE_TAG ->
           \* nested->next = stag->nested; stag->nested = nested;
           [stag EXCEPT !.nested = << parse_simple_tag(f, child) >> \o @]
      [] OTHER -> stag

SimpleTagLoop(f, simple_elem, pos, stag) ==
    IF ebml_at_element_end(pos, simple_elem) THEN stag
    ELSE Only({ IF child.err # MKVTAG_OK THEN stag
                ELSE SimpleTagLoop(f, simple_elem,
                                   ebml_skip_element(child, child.data_offset),
                                   SimpleTagChild(f, child, stag))
                : child \in { ebml_read_element_header(f, pos) } })

parse_simple_tag(f, simple_elem) ==
    SimpleTagLoop(f, simple_elem, simple_elem.data_offset,
                  [NewSimpleTag EXCEPT !.is_default = 1])

TagChild(f, child, tag) ==
    CASE child.id = MKV_ID_TARGETS -> parse_targets(f, child, tag)
      [] child.id = MKV_ID_SIMPLE_TAG ->
           \* stag->next = tag->simple_tags; tag->simple_tags = stag;
           [tag EXCEPT !.simple_tags = << parse_simple_tag(f, child) >> \o @]
      [] OTHER -> tag

RECURSIVE TagLoop(_, _, _, _)
TagLoop(f, tag_elem, pos, tag) ==
    IF ebml_at_element_end(pos, tag_elem) THEN tag
    ELSE Only({ IF child.err # MKVTAG_OK THEN tag
                ELSE TagLoop(f, tag_elem,
                             ebml_skip_element(child, child.data_offset),
                             TagChild(f, child, tag))
                : child \in { ebml_read_element_header(f, pos) } })

parse_tag(f, tag_elem) ==
    TagLoop(f, tag_elem, tag_elem.data_offset,
            [NewTag EXCEPT !.target_type = MKVTAG_TARGET_ALBUM])

RECURSIVE TagsLoop(_, _, _, _)
TagsLoop(f, tags_element, pos, coll) ==
    IF ebml_at_element_end(pos, tags_element) THEN coll
    ELSE Only({ IF child.err # MKVTAG_OK THEN coll
                ELSE TagsLoop(f, tags_element,
                              ebml_skip_element(child, child.data_offset),
                              IF child.id = MKV_ID_TAG
                              THEN Append(coll, parse_tag(f, child)) ELSE coll)
                : child \in { ebml_read_element_header(f, pos) } })

\* The collection is the sequence of its tags; count is its length.
mkv_tags_parse(f, tags_element) ==
    TagsLoop(f, tags_element, tags_element.data_offset, << >>)

(***************************************************************************)
(* Tags serialization (mkv_tags.c)                                         *)
(***************************************************************************)
RECURSIVE UidElements(_, _)
\* for (i = 0; i < count; i++) ebml_write_uint_element(&content, id, uids[i])
UidElements(id, uids) ==
    IF uids = << >> THEN << >>
    ELSE ebml_write_uint_element(id, Head(uids)) \o UidElements(id, Tail(uids))

\* A master element: ebml_write_master_element_header for the content built
\* in a buffer of its own, then the content.
MasterElement(id, content) ==
    ebml_write_master_element_header(id, Len(content)) \o content

RECURSIVE serialize_simple_tag(_)
RECURSIVE SerializeSimpleTags(_)

\* while (stag) { serialize_simple_tag(stag, &content); stag = stag->next; }
SerializeSimpleTags(stags) ==
    IF stags = << >> THEN << >>
    ELSE serialize_simple_tag(Head(stags)) \o SerializeSimpleTags(Tail(stags))

serialize_simple_tag(stag) ==
    MasterElement(MKV_ID_SIMPLE_TAG,
            (IF ~IsNull(stag.name)
             THEN ebml_write_string_element(MKV_ID_TAG_NAME, Deref(stag.name))
             ELSE << >>)
         \o (IF ~IsNull(stag.language)
             THEN ebml_write_string_element(MKV_ID_TAG_LANGUAGE, Deref(stag.language))
             ELSE << >>)
         \o (IF stag.is_default = 0
             THEN ebml_write_uint_element(MKV_ID_TAG_DEFAULT, 0)
             ELSE << >>)
         \o (IF ~IsNull(stag.value)
             THEN ebml_write_string_element(MKV_ID_TAG_STRING, Deref(stag.value))
             ELSE << >>)
         \o (IF ~IsNull(stag.binary) /\ Len(Deref(stag.binary)) > 0
             THEN ebml_write_binary_element(MKV_ID_TAG_BINARY, Deref(stag.binary))
             ELSE << >>)
         \o SerializeSimpleTags(stag.nested))

serialize_targets(tag) ==
    MasterElement(MKV_ID_TARGETS,
            ebml_write_uint_element(MKV_ID_TARGET_TYPE_VALUE, tag.target_type)
         \o (IF ~IsNull(tag.target_type_str)
             THEN ebml_write_string_element(MKV_ID_TARGET_TYPE, Deref(tag.target_type_str))
             ELSE << >>)
         \o UidElements(MKV_ID_TAG_TRACK_UID, tag.track_uids)
         \o UidElements(MKV_ID_TAG_EDITION_UID, tag.edition_uids)
         \o UidElements(MKV_ID_TAG_CHAPTER_UID, tag.chapter_uids)
         \o UidElements(MKV_ID_TAG_ATTACHMENT_UID, tag.attachment_uids))

serialize_tag(tag) ==
    MasterElement(MKV_ID_TAG,
                  serialize_targets(tag) \o SerializeSimpleTags(tag.simple_tags))

RECURSIVE mkv_tags_serialize(_)
\* The content of the Tags element: the Tag elements, without the Tags header.
mkv_tags_serialize(collection) ==
    IF collection = << >> THEN << >>
    ELSE serialize_tag(Head(collection)) \o mkv_tags_serialize(Tail(collection))

mkv_tags_total_size(collection) ==
    Only({ Len(ebml_write_master_element_header(MKV_ID_TAGS, content_size)) + content_size
           : content_size \in { Len(mkv_tags_serialize(collection)) } })

(***************************************************************************)
(* Structure navigator (mkv_parser.c)                                      *)
(***************************************************************************)
DOCTYPE_BUFFER_SIZE == 32            \* char doctype[32]

DocTypeMatroska == << 109, 97, 116, 114, 111, 115, 107, 97 >>   \* "matroska"
DocTypeWebm == << 119, 101, 98, 109 >>                          \* "webm"

\* mkv_file_init: memset to zero, then every recorded offset to -1
mkv_file_init ==
    [doctype |-> << >>,
     segment_offset |-> 0, segment_data_offset |-> 0, segment_size |-> 0,
     segment_unknown_size |-> FALSE,
     seekhead_offset |-> -1, info_offset |-> -1, tracks_offset |-> -1,
     cues_offset |-> -1, tags_offset |-> -1, chapters_offset |-> -1,
     attachments_offset |-> -1, clusters_offset |-> -1,
     void_offset |-> -1, void_size |-> 0]

RECURSIVE HeaderLoop(_, _, _, _)
\* The child loop of mkv_parse_header; the EBML version fields are not kept.
HeaderLoop(f, header, pos, mkv) ==
    IF ebml_at_element_end(pos, header) THEN [err |-> MKVTAG_OK, mkv |-> mkv, pos |-> pos]
    ELSE Only({
         IF child.err # MKVTAG_OK THEN [err |-> MKVTAG_OK, mkv |-> mkv, pos |-> child.pos]
         ELSE Only({
              IF child.is_unknown_size
              THEN [err |-> MKVTAG_ERR_CORRUPT, mkv |-> mkv1, pos |-> child.data_offset]
              ELSE HeaderLoop(f, header, child.end_offset, mkv1)
              : mkv1 \in { IF child.id = EBML_ID_DOCTYPE
                              /\ ebml_read_string(f, child, DOCTYPE_BUFFER_SIZE).err = MKVTAG_OK
                           THEN [mkv EXCEPT !.doctype =
                                    ebml_read_string(f, child, DOCTYPE_BUFFER_SIZE).string]
                           ELSE mkv } })
         : child \in { ebml_read_element_header(f, pos) } })

mkv_parse_header(f, mkv) ==
    Only({
    IF header.err # MKVTAG_OK
    THEN [err |-> MKVTAG_ERR_NOT_EBML, mkv |-> mkv, pos |-> header.pos]
    ELSE IF header.id # EBML_ID_EBML
    THEN [err |-> MKVTAG_ERR_NOT_EBML, mkv |-> mkv, pos |-> header.pos]
    ELSE Only({
         IF r.err # MKVTAG_OK THEN r
         ELSE IF r.mkv.doctype # DocTypeMatroska /\ r.mkv.doctype # DocTypeWebm
         THEN [r EXCEPT !.err = MKVTAG_ERR_NOT_MKV]
         ELSE r
         : r \in { HeaderLoop(f, header, header.data_offset, mkv) } })
    : header \in { ebml_read_element_header(f, 0) } })

mkv_store_element_offset(mkv, id, offset) ==
    CASE id = MKV_ID_SEEKHEAD -> [mkv EXCEPT !.seekhead_offset = offset]
      [] id = MKV_ID_INFO -> [mkv EXCEPT !.info_offset = offset]
      [] id = MKV_ID_TRACKS -> [mkv EXCEPT !.tracks_offset = offset]
      [] id = MKV_ID_CUES -> [mkv EXCEPT !.cues_offset = offset]
      [] id = MKV_ID_TAGS -> [mkv EXCEPT !.tags_offset = offset]
      [] id = MKV_ID_CHAPTERS -> [mkv EXCEPT !.chapters_offset = offset]
      [] id = MKV_ID_ATTACHMENTS -> [mkv EXCEPT !.attachments_offset = offset]
      [] id = MKV_ID_CLUSTER ->
           IF mkv.clusters_offset < 0 THEN [mkv EXCEPT !.clusters_offset = offset] ELSE mkv
      [] OTHER -> mkv

mkv_segment_to_absolute(mkv, relative_position) ==
    mkv.segment_data_offset + relative_position

\* The mutation of mkv_absolute_to_segment that keeps the file offset.
absolute_unshifted(mkv, absolute_offset) == absolute_offset

mkv_absolute_to_segment(mkv, absolute_offset) ==
    absolute_offset - mkv.segment_data_offset

SEEK_ID_BUFFER_SIZE == 4             \* uint8_t id_buf[4]

\* The SeekID bytes of a child read as an element ID; 0 when the child
\* leaves seek_id alone.
ReadSeekId(f, child, seek_id) ==
    Only({ IF r.err = MKVTAG_OK /\ Len(r.data) > 0 THEN FromBigEndian(r.data) ELSE seek_id
           : r \in { ebml_read_binary(f, child, SEEK_ID_BUFFER_SIZE) } })

RECURSIVE SeekEntryLoop(_, _, _, _)
\* The inner loop of mkv_parse_seekhead over the children of one Seek entry.
SeekEntryLoop(f, seek_elem, pos, acc) ==
    IF ebml_at_element_end(pos, seek_elem) THEN [acc EXCEPT !.pos = pos]
    ELSE Only({
         IF child.err # MKVTAG_OK THEN [acc EXCEPT !.pos = child.pos]
         ELSE SeekEntryLoop(f, seek_elem,
                  ebml_skip_element(child, child.data_offset),
                  IF child.id = MKV_ID_SEEK_ID
                  THEN [acc EXCEPT !.seek_id = ReadSeekId(f, child, @)]
                  ELSE IF child.id = MKV_ID_SEEK_POSITION
                          /\ ebml_read_uint(f, child).err = MKVTAG_OK
                  THEN [acc EXCEPT !.seek_position = ebml_read_uint(f, child).value]
                  ELSE acc)
         : child \in { ebml_read_element_header(f, pos) } })

RECURSIVE SeekHeadLoop(_, _, _, _)
\* The outer loop of mkv_parse_seekhead; mkv_cache_element feeds a table
\* nothing reads and is left out.
SeekHeadLoop(f, seekhead, pos, mkv) ==
    IF ebml_at_element_end(pos, seekhead) THEN mkv
    ELSE Only({
         IF seek_elem.err # MKVTAG_OK THEN mkv
         ELSE IF seek_elem.id # MKV_ID_SEEK
         THEN SeekHeadLoop(f, seekhead,
                           ebml_skip_element(seek_elem, seek_elem.data_offset), mkv)
         ELSE Only({
              SeekHeadLoop(f, seekhead, e.pos,
                           IF e.seek_id # 0
                           THEN mkv_store_element_offset(mkv, e.seek_id,
                                    mkv_segment_to_absolute(mkv, e.seek_position))
                           ELSE mkv)
              : e \in { SeekEntryLoop(f, seek_elem, seek_elem.data_offset,
                            [seek_id |-> 0, seek_position |-> 0, pos |-> 0]) } })
         : seek_elem \in { ebml_read_element_header(f, pos) } })

mkv_parse_seekhead(f, mkv, seekhead) ==
    SeekHeadLoop(f, seekhead, seekhead.data_offset, mkv)

RECURSIVE ScanLoop(_, _, _, _)
ScanLoop(f, mkv, pos, segment_end) ==
    IF pos >= segment_end THEN mkv
    ELSE Only({
         IF elem.err # MKVTAG_OK THEN mkv
         ELSE Only({
              LET total_size == (elem.data_offset - pos) + elem.size
                  tracked ==
                      IF elem.id = EBML_ID_VOID
                         /\ (stored.void_offset < 0 \/ total_size > stored.void_size)
                      THEN [stored EXCEPT !.void_offset = pos, !.void_size = total_size]
                      ELSE stored
              IN IF elem.id = MKV_ID_CLUSTER THEN tracked
                 ELSE IF elem.is_unknown_size THEN tracked
                 ELSE ScanLoop(f, tracked, elem.end_offset, segment_end)
              : stored \in { mkv_store_element_offset(mkv, elem.id, pos) } })
         : elem \in { ebml_read_element_header(f, pos) } })

mkv_scan_structure(f, mkv) ==
    ScanLoop(f, mkv, mkv.segment_data_offset,
             IF mkv.segment_unknown_size THEN file_size(f)
             ELSE mkv.segment_data_offset + mkv.segment_size)

\* pos is where mkv_parse_header left the stream
mkv_parse_structure(f, mkv, pos) ==
    Only({
    IF segment.err # MKVTAG_OK THEN [err |-> MKVTAG_ERR_NOT_MKV, mkv |-> mkv]
    ELSE IF segment.id # MKV_ID_SEGMENT THEN [err |-> MKVTAG_ERR_NOT_MKV, mkv |-> mkv]
    ELSE Only({
         IF scanned.seekhead_offset < 0 THEN [err |-> MKVTAG_OK, mkv |-> scanned]
         ELSE Only({
              [err |-> MKVTAG_OK,
               mkv |-> IF seekhead.err = MKVTAG_OK /\ seekhead.id = MKV_ID_SEEKHEAD
                       THEN mkv_parse_seekhead(f, scanned, seekhead)
                       ELSE scanned]
              : seekhead \in { ebml_read_element_header(f, scanned.seekhead_offset) } })
         : scanned \in { mkv_scan_structure(f,
               [mkv EXCEPT
                   !.segment_offset =
                       segment.data_offset - segment.id_length - segment.size_length,
                   !.segment_data_offset = segment.data_offset,
                   !.segment_size = segment.size,
                   !.segment_unknown_size = segment.is_unknown_size]) } })
    : segment \in { ebml_read_element_header(f, pos) } })

(***************************************************************************)
(* SeekHead maintenance (mkv_seekhead.c)                                   *)
(***************************************************************************)
RECURSIVE UpdateEntryLoop(_, _, _, _)
\* The inner loop of mkv_seekhead_update_tags over the children of one Seek.
UpdateEntryLoop(f, seek_elem, pos, acc) ==
    IF ebml_at_element_end(pos, seek_elem) THEN [acc EXCEPT !.pos = pos]
    ELSE Only({
         IF child.err # MKVTAG_OK THEN [acc EXCEPT !.pos = child.pos]
         ELSE UpdateEntryLoop(f, seek_elem,
                  ebml_skip_element(child, child.data_offset),
                  IF child.id = MKV_ID_SEEK_ID
                  THEN [acc EXCEPT !.seek_id = ReadSeekId(f, child, @)]
                  ELSE IF child.id = MKV_ID_SEEK_POSITION
                  THEN [acc EXCEPT !.position_data_offset = child.data_offset,
                                   !.position_data_size = child.size]
                  ELSE acc)
         : child \in { ebml_read_element_header(f, pos) } })

\* "val != 0" after the loop that shifts new_pos out byte by byte: the
\* position does not fit in size bytes.  A position before the Segment
\* content wraps to a huge uint64_t and fits nowhere; model offsets stay
\* below 2^31, so four bytes or more always hold them.
PositionOverflows(new_pos, size) ==
    \/ new_pos < 0
    \/ size = 1 /\ new_pos >= 256
    \/ size = 2 /\ new_pos >= 65536
    \/ size = 3 /\ new_pos >= 16777216

RECURSIVE UpdateSeekHeadLoop(_, _, _, _, _)
\* The outer loop of mkv_seekhead_update_tags: the file after the update.
UpdateSeekHeadLoop(f, mkv, seekhead, pos, tags_offset) ==
    IF ebml_at_element_end(pos, seekhead) THEN f
    ELSE Only({
         IF seek_elem.err # MKVTAG_OK THEN f
         ELSE IF seek_elem.id # MKV_ID_SEEK
         THEN UpdateSeekHeadLoop(f, mkv, seekhead,
                                 ebml_skip_element(seek_elem, seek_elem.data_offset),
                                 tags_offset)
         ELSE Only({
              LET new_pos == mkv_absolute_to_segment(mkv, tags_offset) IN
              IF e.seek_id = MKV_ID_TAGS /\ e.position_data_offset >= 0
                 /\ e.position_data_size > 0
              THEN IF PositionOverflows(new_pos, e.position_data_size) THEN f
                   ELSE file_write(f, e.position_data_offset,
                                   BigEndian(new_pos, e.position_data_size))
              ELSE UpdateSeekHeadLoop(f, mkv, seekhead, e.pos, tags_offset)
              : e \in { UpdateEntryLoop(f, seek_elem, seek_elem.data_offset,
                            [seek_id |-> 0, position_data_offset |-> -1,
                             position_data_size |-> 0, pos |-> 0]) } })
         : seek_elem \in { ebml_read_element_header(f, pos) } })

\* The file after mkv_seekhead_update_tags; its callers ignore what it returns.
mkv_seekhead_update_tags(f, mkv, tags_offset) ==
    IF mkv.seekhead_offset < 0 THEN f
    ELSE Only({
         IF seekhead.err # MKVTAG_OK \/ seekhead.id # MKV_ID_SEEKHEAD THEN f
         ELSE UpdateSeekHeadLoop(f, mkv, seekhead, seekhead.data_offset, tags_offset)
         : seekhead \in { ebml_read_element_header(f, mkv.seekhead_offset) } })

(***************************************************************************)
(* Placement strategies (mkvtag.c).  Each returns the error code, the file *)
(* and the structure record after the attempt.                             *)
(***************************************************************************)
\* The complete Tags element: header and serialized content (tags_buf).
TagsElement(tags) == MasterElement(MKV_ID_TAGS, mkv_tags_serialize(tags))

\* The mutation of write_tags_at that leaves the rest of the space as it is.
write_tags_at_unpadded(f, offset, available_space, tags) ==
    Only({
    IF Len(tags_buf) > available_space THEN [err |-> MKVTAG_ERR_NO_SPACE, f |-> f]
    ELSE [err |-> MKVTAG_OK, f |-> file_write(f, offset, tags_buf)]
    : tags_buf \in { TagsElement(tags) } })

write_tags_at(f, offset, available_space, tags) ==
    Only({
    IF Len(tags_buf) > available_space THEN [err |-> MKVTAG_ERR_NO_SPACE, f |-> f]
    ELSE Only({
         LET remaining == available_space - Len(tags_buf) IN
         IF remaining >= 2
         THEN Only({ IF void_buf.err # MKVTAG_OK THEN [err |-> void_buf.err, f |-> f1]
                     ELSE [err |-> MKVTAG_OK,
                           f |-> file_write(f1, offset + Len(tags_buf), void_buf.data)]
                     : void_buf \in { ebml_write_void_element(remaining) } })
         ELSE IF remaining = 1
         THEN [err |-> MKVTAG_OK, f |-> file_write(f1, offset + Len(tags_buf), << 0 >>)]
         ELSE [err |-> MKVTAG_OK, f |-> f1]
         : f1 \in { file_write(f, offset, tags_buf) } })
    : tags_buf \in { TagsElement(tags) } })

\* The space try_replace_existing_tags finds at tags_offset: the element
\* there plus a Void that starts where it ends.
InPlaceSlot(f, mkv) ==
    Only({
        Only({ (existing_end - mkv.tags_offset)
               + (IF next_elem.err = MKVTAG_OK /\ next_elem.id = EBML_ID_VOID
                  THEN next_elem.end_offset - existing_end ELSE 0)
               : next_elem \in { ebml_peek_element_header(f, existing_end) } })
        : existing_end \in { ebml_read_element_header(f, mkv.tags_offset).end_offset } })

try_replace_existing_tags(f, mkv, tags) ==
    IF mkv.tags_offset < 0 THEN [err |-> MKVTAG_ERR_NO_TAGS, f |-> f, mkv |-> mkv]
    ELSE Only({
         IF existing_tags.err # MKVTAG_OK
         THEN [err |-> existing_tags.err, f |-> f, mkv |-> mkv]
         ELSE Only({
              IF w.err = MKVTAG_OK
              THEN [err |-> MKVTAG_OK,
                    f |-> mkv_seekhead_update_tags(w.f, mkv, mkv.tags_offset),
                    mkv |-> mkv]
              ELSE [err |-> w.err, f |-> w.f, mkv |-> mkv]
              : w \in { write_tags_at(f, mkv.tags_offset, InPlaceSlot(f, mkv), tags) } })
         : existing_tags \in { ebml_read_element_header(f, mkv.tags_offset) } })

try_replace_void(f, mkv, tags) ==
    IF mkv.void_offset < 0 \/ mkv.void_size = 0
    THEN [err |-> MKVTAG_ERR_NO_SPACE, f |-> f, mkv |-> mkv]
    ELSE Only({
         LET mkv1 == [mkv EXCEPT !.tags_offset = mkv.void_offset] IN
         IF w.err = MKVTAG_OK
         THEN [err |-> MKVTAG_OK,
               f |-> mkv_seekhead_update_tags(w.f, mkv1, mkv1.tags_offset),
               mkv |-> mkv1]
         ELSE [err |-> w.err, f |-> w.f, mkv |-> mkv]
         : w \in { write_tags_at(f, mkv.void_offset, mkv.void_size, tags) } })

\* "Void-out old Tags if they exist": every failure on the way is ignored.
VoidOldTags(f, mkv) ==
    IF mkv.tags_offset < 0 THEN f
    ELSE Only({
         IF old_tags.err # MKVTAG_OK THEN f
         ELSE LET old_total == old_tags.end_offset - mkv.tags_offset IN
              IF old_total < 2 THEN f
              ELSE Only({ IF void_buf.err = MKVTAG_OK
                          THEN file_write(f, mkv.tags_offset, void_buf.data)
                          ELSE f
                          : void_buf \in { ebml_write_void_element(old_total) } })
         : old_tags \in { ebml_read_element_header(f, mkv.tags_offset) } })

\* The tail of try_append_tags once the Segment size is settled: write the
\* Tags at the Segment end, void the old Tags, record and publish the offset.
AppendAt(f, mkv, segment_content_end, tags) ==
    LET mkv1 == [mkv EXCEPT !.tags_offset = segment_content_end] IN
    [err |-> MKVTAG_OK,
     f |-> mkv_seekhead_update_tags(
               VoidOldTags(file_write(f, segment_content_end, TagsElement(tags)), mkv),
               mkv1, segment_content_end),
     mkv |-> mkv1]

\* The file and structure record after each file_write call of a
\* try_append_tags that meets no error, in the order of the calls: the
\* Segment size patch (with the assignment to segment_size that follows
\* it), the new Tags element, the Void over the old Tags element.
try_append_tags_writes(f, mkv, tags) ==
    LET segment_content_end ==
            IF mkv.segment_unknown_size THEN file_size(f)
            ELSE mkv.segment_data_offset + mkv.segment_size
        size_offset == mkv.segment_offset + ebml_id_size(MKV_ID_SEGMENT)
        new_segment_size == mkv.segment_size + Len(TagsElement(tags))
        enc == ebml_vint_encode_fixed(new_segment_size,
                                      ebml_vint_length(f[size_offset + 1]))
        patched ==
            IF mkv.segment_unknown_size THEN << >>
            ELSE << [f |-> file_write(f, size_offset, enc.data),
                     mkv |-> [mkv EXCEPT !.segment_size = new_segment_size]] >>
        before == IF patched = << >> THEN [f |-> f, mkv |-> mkv] ELSE patched[1]
        appended ==
            [f |-> file_write(before.f, segment_content_end, TagsElement(tags)),
             mkv |-> before.mkv]
        voided == [f |-> VoidOldTags(appended.f, mkv), mkv |-> before.mkv]
    IN patched \o << appended >>
           \o (IF voided.f # appended.f THEN << voided >> ELSE << >>)

\* The mutation of try_append_tags that appends before it knows that the
\* new Segment size can be encoded.
try_append_tags_unchecked(f, mkv, tags) ==
    LET segment_content_end ==
            IF mkv.segment_unknown_size THEN file_size(f)
            ELSE mkv.segment_data_offset + mkv.segment_size
        size_offset == mkv.segment_offset + ebml_id_size(MKV_ID_SEGMENT)
    IN IF mkv.segment_unknown_size THEN AppendAt(f, mkv, segment_content_end, tags)
       ELSE IF ~CanRead(f, size_offset, 1)
       THEN [err |-> MKVTAG_ERR_TRUNCATED, f |-> f, mkv |-> mkv]
       ELSE Only({
            Only({
                IF enc.err # MKVTAG_OK
                THEN [AppendAt(f, mkv, segment_content_end, tags)
                          EXCEPT !.err = MKVTAG_ERR_NO_SPACE]
                ELSE AppendAt(file_write(f, size_offset, enc.data),
                              [mkv EXCEPT !.segment_size = new_segment_size],
                              segment_content_end, tags)
                : enc \in { ebml_vint_encode_fixed(new_segment_size,
                                ebml_vint_length(f[size_offset + 1])) } })
            : new_segment_size \in { mkv.segment_size + Len(TagsElement(tags)) } })

\* The mutation of try_append_tags that grows the Segment size in the file
\* and leaves the one in the structure record as it was.
try_append_tags_stale_size(f, mkv, tags) ==
    LET segment_content_end ==
            IF mkv.segment_unknown_size THEN file_size(f)
            ELSE mkv.segment_data_offset + mkv.segment_size
        size_offset == mkv.segment_offset + ebml_id_size(MKV_ID_SEGMENT)
    IN IF mkv.segment_unknown_size THEN AppendAt(f, mkv, segment_content_end, tags)
       ELSE IF ~CanRead(f, size_offset, 1)
       THEN [err |-> MKVTAG_ERR_TRUNCATED, f |-> f, mkv |-> mkv]
       ELSE Only({
            Only({
                IF enc.err # MKVTAG_OK
                THEN [err |-> MKVTAG_ERR_NO_SPACE, f |-> f, mkv |-> mkv]
                ELSE AppendAt(file_write(f, size_offset, enc.data), mkv,
                              segment_content_end, tags)
                : enc \in { ebml_vint_encode_fixed(new_segment_size,
                                ebml_vint_length(f[size_offset + 1])) } })
            : new_segment_size \in { mkv.segment_size + Len(TagsElement(tags)) } })

try_append_tags(f, mkv, tags) ==
    LET segment_content_end ==
            IF mkv.segment_unknown_size THEN file_size(f)
            ELSE mkv.segment_data_offset + mkv.segment_size
        size_offset == mkv.segment_offset + ebml_id_size(MKV_ID_SEGMENT)
    IN IF mkv.segment_unknown_size THEN AppendAt(f, mkv, segment_content_end, tags)
       ELSE IF ~CanRead(f, size_offset, 1)
       THEN [err |-> MKVTAG_ERR_TRUNCATED, f |-> f, mkv |-> mkv]
       ELSE Only({
            Only({
                IF enc.err # MKVTAG_OK
                THEN [err |-> MKVTAG_ERR_NO_SPACE, f |-> f, mkv |-> mkv]
                ELSE AppendAt(file_write(f, size_offset, enc.data),
                              [mkv EXCEPT !.segment_size = new_segment_size],
                              segment_content_end, tags)
                : enc \in { ebml_vint_encode_fixed(new_segment_size,
                                ebml_vint_length(f[size_offset + 1])) } })
            : new_segment_size \in { mkv.segment_size + Len(TagsElement(tags)) } })

(***************************************************************************)
(* String helpers (string_util.c)                                          *)
(***************************************************************************)
tolower(c) == IF c >= 65 /\ c <= 90 THEN c + 32 ELSE c

\* str_casecmp(a, b) == 0 for two non-NULL strings
str_casecmp_eq(a, b) ==
    /\ Len(a) = Len(b)
    /\ \A i \in 1..Len(a) : tolower(a[i]) = tolower(b[i])

\* str_copy into a buffer of dst_size bytes returns a negative value
str_copy_fails(src, dst_size) == Len(src) >= dst_size

(***************************************************************************)
(* Collection building (mkvtag.c)                                          *)
(***************************************************************************)
mkvtag_collection_create == << >>

\* The collection with a new, empty tag of the given type appended
mkvtag_collection_add_tag(coll, type) ==
    Append(coll, [NewTag EXCEPT !.target_type = type])

\* The tag with a new simple tag (name, value) appended; value may be NULL
mkvtag_tag_add_simple(tag, name, value) ==
    [tag EXCEPT !.simple_tags =
        Append(@, [NewSimpleTag EXCEPT !.name = Some(name), !.value = value,
                                       !.is_default = 1])]

mkvtag_simple_tag_set_language(simple_tag, language) ==
    [simple_tag EXCEPT !.language = Some(language)]

(***************************************************************************)
(* Context API (mkvtag.c).  ctx holds the handle field file (NULL, or a    *)
(* handle that remembers the mode it was opened in), is_open, is_writable, *)
(* cached_tags (NULL or a pointer to a collection) and the structure       *)
(* record mkv; the bytes of the file travel beside it.                     *)
(***************************************************************************)
mkvtag_create ==
    [file |-> NULL, is_open |-> FALSE, is_writable |-> FALSE, cached_tags |-> NULL,
     mkv |-> mkv_file_init]

\* opened is what file_open_read / file_open_rw returns for the path: NULL,
\* or a pointer to the file.
mkvtag_open_internal(opened, ctx, writable) ==
    IF ctx.is_open THEN [err |-> MKVTAG_ERR_ALREADY_OPEN, ctx |-> ctx]
    ELSE IF IsNull(opened)
    THEN [err |-> MKVTAG_ERR_IO, ctx |-> [ctx EXCEPT !.file = NULL]]
    ELSE Only({
         IF h.err # MKVTAG_OK
         THEN [err |-> h.err, ctx |-> [ctx EXCEPT !.mkv = h.mkv, !.file = NULL]]
         ELSE Only({
              IF st.err # MKVTAG_OK
              THEN [err |-> st.err, ctx |-> [ctx EXCEPT !.mkv = st.mkv, !.file = NULL]]
              ELSE [err |-> MKVTAG_OK,
                    ctx |-> [ctx EXCEPT !.file = Some(writable), !.mkv = st.mkv,
                                        !.is_open = TRUE, !.is_writable = writable]]
              : st \in { mkv_parse_structure(Deref(opened), h.mkv, h.pos) } })
         : h \in { mkv_parse_header(Deref(opened), mkv_file_init) } })

mkvtag_open(opened, ctx) == mkvtag_open_internal(opened, ctx, FALSE)

mkvtag_open_rw(opened, ctx) == mkvtag_open_internal(opened, ctx, TRUE)

\* The mutation of mkvtag_close that leaves the handle in the context.
close_keeping_handle(ctx) ==
    [ctx EXCEPT !.cached_tags = NULL, !.is_open = FALSE, !.is_writable = FALSE]

mkvtag_close(ctx) ==
    [ctx EXCEPT !.cached_tags = NULL, !.file = NULL, !.is_open = FALSE,
                !.is_writable = FALSE]

mkvtag_read_tags(f, ctx) ==
    IF ~ctx.is_open THEN [err |-> MKVTAG_ERR_NOT_OPEN, ctx |-> ctx, tags |-> NULL]
    ELSE IF ~IsNull(ctx.cached_tags)
    THEN [err |-> MKVTAG_OK, ctx |-> ctx, tags |-> ctx.cached_tags]
    ELSE IF ctx.mkv.tags_offset < 0
    THEN [err |-> MKVTAG_ERR_NO_TAGS, ctx |-> ctx, tags |-> NULL]
    ELSE Only({
         IF tags_element.err # MKVTAG_OK
         THEN [err |-> tags_element.err, ctx |-> ctx, tags |-> NULL]
         ELSE IF tags_element.id # MKV_ID_TAGS
         THEN [err |-> MKVTAG_ERR_CORRUPT, ctx |-> ctx, tags |-> NULL]
         ELSE Only({ [err |-> MKVTAG_OK,
                      ctx |-> [ctx EXCEPT !.cached_tags = collection],
                      tags |-> collection]
                     : collection \in { Some(mkv_tags_parse(f, tags_element)) } })
         : tags_element \in { ebml_read_element_header(f, ctx.mkv.tags_offset) } })

RECURSIVE FindInSimpleTags(_, _)
\* The inner while of mkvtag_read_tag_string: the value of the first simple
\* tag of the list with the name and a value, as a pointer, else NULL.
FindInSimpleTags(stags, name) ==
    IF stags = << >> THEN NULL
    ELSE LET stag == Head(stags) IN
         IF ~IsNull(stag.name) /\ str_casecmp_eq(Deref(stag.name), name)
            /\ ~IsNull(stag.value)
         THEN stag.value
         ELSE FindInSimpleTags(Tail(stags), name)

RECURSIVE FindInTags(_, _)
\* The outer while of mkvtag_read_tag_string, over every tag of the list.
FindInTags(tags, name) ==
    IF tags = << >> THEN NULL
    ELSE Only({ IF ~IsNull(found) THEN found ELSE FindInTags(Tail(tags), name)
                : found \in { FindInSimpleTags(Head(tags).simple_tags, name) } })

\* size is the capacity of the caller's buffer
mkvtag_read_tag_string(f, ctx, name, size) ==
    IF size = 0 THEN [err |-> MKVTAG_ERR_INVALID_ARG, ctx |-> ctx, value |-> NULL]
    ELSE Only({
         IF r.err # MKVTAG_OK THEN [err |-> r.err, ctx |-> r.ctx, value |-> NULL]
         ELSE Only({
              IF IsNull(found)
              THEN [err |-> MKVTAG_ERR_TAG_NOT_FOUND, ctx |-> r.ctx, value |-> NULL]
              ELSE IF str_copy_fails(Deref(found), size)
              THEN [err |-> MKVTAG_ERR_TAG_TOO_LARGE, ctx |-> r.ctx, value |-> NULL]
              ELSE [err |-> MKVTAG_OK, ctx |-> r.ctx, value |-> found]
              : found \in { FindInTags(Deref(r.tags), name) } })
         : r \in { mkvtag_read_tags(f, ctx) } })

\* The strategy recorded with the result of a write
NoStrategy == "none"
InPlace == "in-place"
IntoVoid == "largest-void"
AtEnd == "append"

\* The mutation of the strategy chain that tries the largest Void first.
VoidFirstStrategies(f, ctx, tags) ==
    Only({
    IF s2.err = MKVTAG_OK
    THEN [err |-> MKVTAG_OK, f |-> s2.f, ctx |-> [ctx EXCEPT !.mkv = s2.mkv],
          strategy |-> IntoVoid]
    ELSE Only({
         IF s1.err = MKVTAG_OK
         THEN [err |-> MKVTAG_OK, f |-> s1.f, ctx |-> [ctx EXCEPT !.mkv = s1.mkv],
               strategy |-> InPlace]
         ELSE Only({
              [err |-> s3.err, f |-> s3.f, ctx |-> [ctx EXCEPT !.mkv = s3.mkv],
               strategy |-> IF s3.err = MKVTAG_OK THEN AtEnd ELSE NoStrategy]
              : s3 \in { try_append_tags(s1.f, s1.mkv, tags) } })
         : s1 \in { try_replace_existing_tags(s2.f, s2.mkv, tags) } })
    : s2 \in { try_replace_void(f, ctx.mkv, tags) } })

\* The strategy chain of mkvtag_write_tags, with the strategy that committed.
WriteStrategies(f, ctx, tags) ==
    Only({
    IF s1.err = MKVTAG_OK
    THEN [err |-> MKVTAG_OK, f |-> s1.f, ctx |-> [ctx EXCEPT !.mkv = s1.mkv],
          strategy |-> InPlace]
    ELSE Only({
         IF s2.err = MKVTAG_OK
         THEN [err |-> MKVTAG_OK, f |-> s2.f, ctx |-> [ctx EXCEPT !.mkv = s2.mkv],
               strategy |-> IntoVoid]
         ELSE Only({
              [err |-> s3.err, f |-> s3.f, ctx |-> [ctx EXCEPT !.mkv = s3.mkv],
               strategy |-> IF s3.err = MKVTAG_OK THEN AtEnd ELSE NoStrategy]
              : s3 \in { try_append_tags(s2.f, s2.mkv, tags) } })
         : s2 \in { try_replace_void(s1.f, s1.mkv, tags) } })
    : s1 \in { IF ctx.mkv.tags_offset >= 0
               THEN try_replace_existing_tags(f, ctx.mkv, tags)
               ELSE \* not tried
                    [err |-> MKVTAG_ERR_NO_TAGS, f |-> f, mkv |-> ctx.mkv] } })

\* The mutation of mkvtag_write_tags that does not ask whether the context
\* may write.
write_tags_unguarded(f, ctx, tags) ==
    IF ~ctx.is_open
    THEN [err |-> MKVTAG_ERR_NOT_OPEN, f |-> f, ctx |-> ctx, strategy |-> NoStrategy]
    ELSE WriteStrategies(f, [ctx EXCEPT !.cached_tags = NULL], tags)

\* The mutation of mkvtag_write_tags that keeps the cached collection.
write_tags_keeping_cache(f, ctx, tags) ==
    IF ~ctx.is_open
    THEN [err |-> MKVTAG_ERR_NOT_OPEN, f |-> f, ctx |-> ctx, strategy |-> NoStrategy]
    ELSE IF ~ctx.is_writable
    THEN [err |-> MKVTAG_ERR_READ_ONLY, f |-> f, ctx |-> ctx, strategy |-> NoStrategy]
    ELSE WriteStrategies(f, ctx, tags)

mkvtag_write_tags(f, ctx, tags) ==
    IF ~ctx.is_open
    THEN [err |-> MKVTAG_ERR_NOT_OPEN, f |-> f, ctx |-> ctx, strategy |-> NoStrategy]
    ELSE IF ~ctx.is_writable
    THEN [err |-> MKVTAG_ERR_READ_ONLY, f |-> f, ctx |-> ctx, strategy |-> NoStrategy]
    ELSE WriteStrategies(f, [ctx EXCEPT !.cached_tags = NULL], tags)

RECURSIVE CopySimpleTags(_, _, _, _, _)
\* The "Copy simple tags, skipping the one we're updating" loop of
\* mkvtag_set_tag_string: new_tag after the rest of the source list src_stags
\* of a tag of type src_type has been copied.  value may be NULL.
CopySimpleTags(src_stags, src_type, new_tag, name, value) ==
    IF src_stags = << >> THEN new_tag
    ELSE LET src_stag == Head(src_stags)
             matches == /\ src_type = MKVTAG_TARGET_ALBUM
                        /\ ~IsNull(src_stag.name)
                        /\ str_casecmp_eq(Deref(src_stag.name), name)
             copied == mkvtag_tag_add_simple(new_tag,
                           IF IsNull(src_stag.name) THEN << >> ELSE Deref(src_stag.name),
                           src_stag.value)
             n == Len(copied.simple_tags)
             with_language ==
                 IF IsNull(src_stag.language) THEN copied
                 ELSE [copied EXCEPT !.simple_tags[n] =
                          mkvtag_simple_tag_set_language(@, Deref(src_stag.language))]
             next == IF matches
                     THEN IF IsNull(value) THEN new_tag
                          ELSE mkvtag_tag_add_simple(new_tag, name, value)
                     ELSE with_language
         IN CopySimpleTags(Tail(src_stags), src_type, next, name, value)

\* One round of the "Copy all existing tags" loop: the copy of src_tag.
CopyTag(src_tag, name, value) ==
    LET new_tag == [NewTag EXCEPT !.target_type = src_tag.target_type,
                                  !.target_type_str = src_tag.target_type_str,
                                  !.track_uids = src_tag.track_uids]
    IN CopySimpleTags(src_tag.simple_tags, src_tag.target_type, new_tag, name, value)

\* found_anywhere: some album-level tag of existing holds the name
FoundAnywhere(existing, name) ==
    \E i \in 1..Len(existing) :
        /\ existing[i].target_type = MKVTAG_TARGET_ALBUM
        /\ \E j \in 1..Len(existing[i].simple_tags) :
               /\ ~IsNull(existing[i].simple_tags[j].name)
               /\ str_casecmp_eq(Deref(existing[i].simple_tags[j].name), name)

\* "Find or create an album-level tag to add the new simple tag to"
AddToAlbumTag(working, name, value) ==
    LET albums == {i \in 1..Len(working) : working[i].target_type = MKVTAG_TARGET_ALBUM}
        first == CHOOSE i \in albums : \A k \in albums : i <= k
        grown == mkvtag_collection_add_tag(working, MKVTAG_TARGET_ALBUM)
    IN IF albums # {}
       THEN [working EXCEPT ![first] = mkvtag_tag_add_simple(@, name, value)]
       ELSE [grown EXCEPT ![Len(grown)] = mkvtag_tag_add_simple(@, name, value)]

\* The working collection mkvtag_set_tag_string builds from what
\* mkvtag_read_tags returned (r); value may be NULL.
WorkingCollection(r, name, value) ==
    IF r.err = MKVTAG_OK /\ ~IsNull(r.tags)
    THEN LET existing == Deref(r.tags)
             copy == [i \in 1..Len(existing) |-> CopyTag(existing[i], name, value)]
         IN IF ~IsNull(value) /\ ~FoundAnywhere(existing, name)
            THEN AddToAlbumTag(copy, name, value)
            ELSE copy
    ELSE IF ~IsNull(value)
    THEN AddToAlbumTag(mkvtag_collection_create, name, value)
    ELSE mkvtag_collection_create

\* value is NULL (remove the name) or a pointer to the new value; working
\* is reported with the result so that what was written can be compared.
mkvtag_set_tag_string(f, ctx, name, value) ==
    IF ~ctx.is_open
    THEN [err |-> MKVTAG_ERR_NOT_OPEN, f |-> f, ctx |-> ctx,
          strategy |-> NoStrategy, working |-> NULL]
    ELSE IF ~ctx.is_writable
    THEN [err |-> MKVTAG_ERR_READ_ONLY, f |-> f, ctx |-> ctx,
          strategy |-> NoStrategy, working |-> NULL]
    ELSE Only({
         Only({
             Only({ [err |-> w.err, f |-> w.f, ctx |-> w.ctx, strategy |-> w.strategy,
                     working |-> Some(working)]
                    : w \in { mkvtag_write_tags(f, r.ctx, working) } })
             : working \in { WorkingCollection(r, name, value) } })
         : r \in { mkvtag_read_tags(f, ctx) } })

mkvtag_remove_tag(f, ctx, name) == mkvtag_set_tag_string(f, ctx, name, NULL)

(***************************************************************************)
(* The files the model starts from, built as the test suite builds its     *)
(* file (create_mkv_file): an EBML header and a Segment whose children     *)
(* are laid out in the orders muxers produce.                              *)
(***************************************************************************)
MKV_ID_SIMPLE_BLOCK == 163           \* 0xA3

NameA == << 65 >>                    \* "A"
NameLowerA == << 97 >>               \* "a"
NameB == << 66 >>                    \* "B"
ValueX == << 120 >>                  \* "x"
ValueYY == << 121, 121 >>            \* "yy"
MuxingApp == << 116 >>               \* "t"

EbmlHeader(doctype) ==
    MasterElement(EBML_ID_EBML, ebml_write_string_element(EBML_ID_DOCTYPE, doctype))

InfoElement ==
    MasterElement(MKV_ID_INFO, ebml_write_string_element(MKV_ID_MUXING_APP, MuxingApp))

\* A Cluster with a Timecode and one block of block_size payload bytes
ClusterElement(block_size) ==
    MasterElement(MKV_ID_CLUSTER,
        ebml_write_uint_element(MKV_ID_TIMECODE, 0)
        \o ebml_write_binary_element(MKV_ID_SIMPLE_BLOCK, Zeros(block_size)))

VoidElement(total_size) == ebml_write_void_element(total_size).data

\* A SeekHead with one Seek entry: SeekID id, SeekPosition position on one byte
SeekHeadElement(id, position) ==
    MasterElement(MKV_ID_SEEKHEAD,
        MasterElement(MKV_ID_SEEK,
            ebml_write_binary_element(MKV_ID_SEEK_ID, ebml_id_encode(id))
            \o ebml_write_binary_element(MKV_ID_SEEK_POSITION, BigEndian(position, 1))))

\* A SeekHead with two Seek entries, each with a SeekPosition on one byte
SeekHead2(id1, position1, id2, position2) ==
    MasterElement(MKV_ID_SEEKHEAD,
        MasterElement(MKV_ID_SEEK,
            ebml_write_binary_element(MKV_ID_SEEK_ID, ebml_id_encode(id1))
            \o ebml_write_binary_element(MKV_ID_SEEK_POSITION, BigEndian(position1, 1)))
        \o MasterElement(MKV_ID_SEEK,
            ebml_write_binary_element(MKV_ID_SEEK_ID, ebml_id_encode(id2))
            \o ebml_write_binary_element(MKV_ID_SEEK_POSITION, BigEndian(position2, 1))))

\* A simple tag as mkvtag_tag_add_simple makes it
SimpleTag(name, value) ==
    [NewSimpleTag EXCEPT !.name = Some(name), !.value = Some(value), !.is_default = 1]

\* A tag of the given type holding the given simple tags
TagOf(type, simple_tags) ==
    [NewTag EXCEPT !.target_type = type, !.simple_tags = simple_tags]

AlbumA == << TagOf(MKVTAG_TARGET_ALBUM, << SimpleTag(NameA, ValueX) >>) >>
TrackA == << TagOf(MKVTAG_TARGET_TRACK, << SimpleTag(NameA, ValueX) >>) >>
AlbumAB ==
    << TagOf(MKVTAG_TARGET_ALBUM, << SimpleTag(NameA, ValueX), SimpleTag(NameB, ValueYY) >>) >>

\* A track-level tag for one edition whose simple tag is not the default
\* and has a nested child
RichTrack ==
    << [TagOf(MKVTAG_TARGET_TRACK,
              << [SimpleTag(NameB, ValueX) EXCEPT
                     !.is_default = 0,
                     !.nested = << SimpleTag(NameA, ValueX) >>] >>)
           EXCEPT !.edition_uids = << 1 >>] >>

\* The file with the given DocType and Segment children; size_length is the
\* width of the Segment size VINT, 0 for a Segment of unknown size.
MkvFile(doctype, size_length, children) ==
    EbmlHeader(doctype)
    \o ebml_id_encode(MKV_ID_SEGMENT)
    \o (IF size_length = 0 THEN << 255 >>
        ELSE ebml_vint_encode_fixed(Len(children), size_length).data)
    \o children

(***************************************************************************)
(* Bounds                                                                  *)
(***************************************************************************)
MaxWrites == 2          \* write attempts on a writable context per run
ReadBufferSize == 16    \* capacity of the buffer given to read_tag_string
BigVoid == 40           \* total size of the padding a muxer reserves
SmallVoid == 16         \* total size of a short padding
BlockSize == 4          \* payload bytes of a small Cluster
BigBlock == 70          \* payload bytes of a Cluster that fills the Segment
HugeBlock == 250        \* payload bytes of a Cluster that pushes the Segment end past 255
MaxVoidSize == 140      \* largest total size asked of the Void writer on its own
MaxCodecTags == 2       \* tags per collection handed to the codec
MaxCodecSimple == 2     \* simple tags per tag handed to the codec

\* Segment children of the starting files
FreshChildren == InfoElement \o VoidElement(BigVoid)
TagsVoidChildren(c) == InfoElement \o TagsElement(c) \o VoidElement(SmallVoid)
VoidTagsChildren(c) == VoidElement(BigVoid) \o InfoElement \o TagsElement(c)
SeekTailChildren(c) ==
    Only({ SeekHeadElement(MKV_ID_TAGS, Len(SeekHeadElement(MKV_ID_TAGS, 0)) + Len(before))
           \o before \o TagsElement(c)
           : before \in { InfoElement \o ClusterElement(BlockSize) } })
NoRoomChildren(c) == InfoElement \o TagsElement(c) \o ClusterElement(BigBlock)
ClusterOnlyChildren == InfoElement \o ClusterElement(BlockSize)
\* A SeekHead whose Tags entry holds the position of the Info element
StaleSeekChildren ==
    SeekHeadElement(MKV_ID_TAGS, Len(SeekHeadElement(MKV_ID_TAGS, 0)))
    \o InfoElement \o VoidElement(BigVoid)
UnknownSizeChildren == InfoElement \o VoidElement(SmallVoid)
\* A SeekHead whose Tags entry holds a position past the end of the file
DanglingSeekChildren ==
    Only({ SeekHeadElement(MKV_ID_TAGS, Len(SeekHeadElement(MKV_ID_TAGS, 0)) + Len(rest) + 1)
           \o rest
           : rest \in { InfoElement \o VoidElement(BigVoid) } })

\* A SeekHead that names only the Info element
InfoSeekChildren ==
    SeekHeadElement(MKV_ID_INFO, Len(SeekHeadElement(MKV_ID_INFO, 0)))
    \o InfoElement \o VoidElement(BigVoid)
\* A SeekHead that names Info and Tags, the Tags in front of a Cluster
TwoSeekChildren(c) ==
    Only({ SeekHead2(MKV_ID_INFO, seekhead_size,
                     MKV_ID_TAGS, seekhead_size + Len(InfoElement))
           \o InfoElement \o TagsElement(c) \o ClusterElement(BlockSize)
           : seekhead_size \in { Len(SeekHead2(MKV_ID_INFO, 0, MKV_ID_TAGS, 0)) } })

\* A SeekHead that names the Tags, the Tags in front of a long Cluster
FarSeekChildren(c) ==
    Only({ SeekHeadElement(MKV_ID_TAGS, seekhead_size + Len(InfoElement))
           \o InfoElement \o TagsElement(c) \o ClusterElement(HugeBlock)
           : seekhead_size \in { Len(SeekHeadElement(MKV_ID_TAGS, 0)) } })

\* "avi": a DocType that is neither "matroska" nor "webm"
DocTypeOther == << 97, 118, 105 >>

\* The file whose EBML header declares a content of one byte, less than
\* its DocType child takes; the Segment follows the DocType child.
ShortHeaderFile(children) ==
    Only({ ebml_write_master_element_header(EBML_ID_EBML, 1)
           \o SubSeq(whole, Len(ebml_write_master_element_header(EBML_ID_EBML, 1)) + 1,
                     Len(whole))
           : whole \in { MkvFile(DocTypeWebm, 1, children) } })

InitialFiles ==
    { MkvFile(DocTypeWebm, 1, FreshChildren),
      MkvFile(DocTypeMatroska, 1, TagsVoidChildren(AlbumA)),
      MkvFile(DocTypeMatroska, 1, TagsVoidChildren(TrackA)),
      MkvFile(DocTypeMatroska, 1, VoidTagsChildren(AlbumA)),
      MkvFile(DocTypeMatroska, 1, VoidTagsChildren(TrackA)),
      MkvFile(DocTypeMatroska, 2, SeekTailChildren(AlbumA)),
      MkvFile(DocTypeMatroska, 1, NoRoomChildren(AlbumA)),
      MkvFile(DocTypeWebm, 1, ClusterOnlyChildren),
      MkvFile(DocTypeMatroska, 1, StaleSeekChildren),
      MkvFile(DocTypeWebm, 0, UnknownSizeChildren),
      MkvFile(DocTypeMatroska, 1, DanglingSeekChildren),
      MkvFile(DocTypeMatroska, 1, InfoSeekChildren),
      \* files that are not Matroska
      InfoElement \o VoidElement(SmallVoid),
      MkvFile(DocTypeOther, 1, FreshChildren),
      EbmlHeader(DocTypeWebm) \o InfoElement,
      ShortHeaderFile(FreshChildren),
      MkvFile(DocTypeMatroska, 1, TagsVoidChildren(RichTrack)),
      MkvFile(DocTypeMatroska, 2, FarSeekChildren(AlbumA)),
      MkvFile(DocTypeMatroska, 1, TwoSeekChildren(AlbumA)),
      \* a top-level Void follows the Segment
      MkvFile(DocTypeMatroska, 2, InfoElement) \o VoidElement(SmallVoid) }

\* What the callers pass
Names == { NameA, NameLowerA }
Values == { ValueX, ValueYY }
Collections ==
    { << >>, AlbumA, AlbumAB,
      \* a simple tag built without a name
      << TagOf(MKVTAG_TARGET_ALBUM,
               << [NewSimpleTag EXCEPT !.value = Some(ValueX), !.is_default = 1] >>) >> }

(***************************************************************************)
(* State                                                                   *)
(***************************************************************************)
VARIABLES
    file,       \* the bytes of the file on disk
    ctx,        \* the context: is_open, is_writable, cached_tags, mkv
    last,       \* the last call: its name, arguments, result and the file
                \* and context it started from
    pending,    \* the last set_tag_string that returned OK on this context
                \* with only reads since: [name, value], or NULL
    written,    \* the collection of the last write that returned OK and
                \* whether the file was closed / re-opened since
    nwrites,    \* write attempts made on a writable context
    codec       \* the collection handed to the codec and what came back

vars == << file, ctx, last, pending, written, nwrites, codec >>

NoCall ==
    [op |-> "none", err |-> MKVTAG_OK, name |-> << >>, value |-> NULL,
     tags |-> NULL, strategy |-> NoStrategy, f |-> << >>, ctx |-> mkvtag_create]

NothingWritten == [tags |-> NULL, stage |-> "none"]

CodecIdle == [phase |-> "idle", c |-> << >>, bytes |-> << >>, parsed |-> << >>]

Init ==
    /\ file \in InitialFiles
    /\ ctx = mkvtag_create
    /\ last = NoCall
    /\ pending = NULL
    /\ written = NothingWritten
    /\ nwrites = 0
    /\ codec = CodecIdle

\* The record of a call that started from the current file and context
Call(op, err, name, value, tags, strategy) ==
    [op |-> op, err |-> err, name |-> name, value |-> value, tags |-> tags,
     strategy |-> strategy, f |-> file, ctx |-> ctx]

\* written after a close / after a successful open
AfterClose == IF written.stage = "none" THEN written ELSE [written EXCEPT !.stage = "closed"]
AfterOpen == IF written.stage = "closed" THEN [written EXCEPT !.stage = "reopened"] ELSE written

\* written after a write attempt returned err for collection tags
AfterWrite(err, tags) ==
    IF err = MKVTAG_OK THEN [tags |-> tags, stage |-> "written"]
    ELSE IF err = MKVTAG_ERR_READ_ONLY \/ err = MKVTAG_ERR_NOT_OPEN THEN written
    ELSE NothingWritten

Attempted == IF ctx.is_open /\ ctx.is_writable THEN nwrites + 1 ELSE nwrites

Open ==
    \E opened \in { NULL, Some(file) } : \E r \in { mkvtag_open(opened, ctx) } :
        /\ ctx' = r.ctx
        /\ last' = Call("open", r.err, << >>, NULL, NULL, NoStrategy)
        /\ written' = IF r.err = MKVTAG_OK THEN AfterOpen ELSE written
        /\ pending' = IF r.err = MKVTAG_OK THEN NULL ELSE pending
        /\ UNCHANGED << file, nwrites, codec >>

OpenRW ==
    \E opened \in { NULL, Some(file) } : \E r \in { mkvtag_open_rw(opened, ctx) } :
        /\ ctx' = r.ctx
        /\ last' = Call("open_rw", r.err, << >>, NULL, NULL, NoStrategy)
        /\ written' = IF r.err = MKVTAG_OK THEN AfterOpen ELSE written
        /\ pending' = IF r.err = MKVTAG_OK THEN NULL ELSE pending
        /\ UNCHANGED << file, nwrites, codec >>

Close ==
    /\ ctx' = mkvtag_close(ctx)
    /\ last' = Call("close", MKVTAG_OK, << >>, NULL, NULL, NoStrategy)
    /\ written' = AfterClose
    /\ pending' = NULL
    /\ UNCHANGED << file, nwrites, codec >>

ReadTags ==
    \E r \in { mkvtag_read_tags(file, ctx) } :
        /\ ctx' = r.ctx
        /\ last' = Call("read_tags", r.err, << >>, NULL, r.tags, NoStrategy)
        /\ UNCHANGED << file, pending, written, nwrites, codec >>

ReadTagString ==
    \E name \in Names :
        \E r \in { mkvtag_read_tag_string(file, ctx, name, ReadBufferSize) } :
            /\ ctx' = r.ctx
            /\ last' = Call("read_tag_string", r.err, name, r.value, NULL, NoStrategy)
            /\ UNCHANGED << file, pending, written, nwrites, codec >>

WriteTags ==
    /\ nwrites < MaxWrites
    /\ \E tags \in Collections :
        \E r \in { mkvtag_write_tags(file, ctx, tags) } :
            /\ file' = r.f
            /\ ctx' = r.ctx
            /\ last' = Call("write_tags", r.err, << >>, NULL, Some(tags), r.strategy)
            /\ written' = AfterWrite(r.err, Some(tags))
            /\ pending' = NULL
            /\ nwrites' = Attempted
            /\ UNCHANGED codec

\* mkvtag_write_tags handed the context-owned collection that
\* mkvtag_read_tags returned.  The cache invalidation at the start of the
\* call releases that collection before it is serialized, so what the
\* serializer reads from the released memory is not determined: the content
\* the caller passed when the memory was left alone, any other content
\* otherwise.
WriteCachedTags ==
    /\ nwrites < MaxWrites
    /\ ctx.is_open
    /\ ctx.is_writable
    /\ ~IsNull(ctx.cached_tags)
    /\ \E seen \in { Deref(ctx.cached_tags) } \cup Collections :
        \E r \in { mkvtag_write_tags(file, ctx, seen) } :
            /\ file' = r.f
            /\ ctx' = r.ctx
            /\ last' = Call("write_cached_tags", r.err, << >>, NULL, ctx.cached_tags,
                            r.strategy)
            /\ written' = AfterWrite(r.err, Some(seen))
            /\ pending' = NULL
            /\ nwrites' = Attempted
            /\ UNCHANGED codec

SetTagString ==
    /\ nwrites < MaxWrites
    /\ \E name \in Names, value \in Values :
        \E r \in { mkvtag_set_tag_string(file, ctx, name, Some(value)) } :
            /\ file' = r.f
            /\ ctx' = r.ctx
            /\ last' = Call("set_tag_string", r.err, name, Some(value), r.working,
                            r.strategy)
            /\ written' = AfterWrite(r.err, r.working)
            /\ pending' = IF r.err = MKVTAG_OK
                          THEN Some([name |-> name, value |-> Some(value)])
                          ELSE NULL
            /\ nwrites' = Attempted
            /\ UNCHANGED codec

RemoveTag ==
    /\ nwrites < MaxWrites
    /\ \E name \in Names :
        \E r \in { mkvtag_remove_tag(file, ctx, name) } :
            /\ file' = r.f
            /\ ctx' = r.ctx
            /\ last' = Call("remove_tag", r.err, name, NULL, r.working, r.strategy)
            /\ written' = AfterWrite(r.err, r.working)
            /\ pending' = IF r.err = MKVTAG_OK THEN Some([name |-> name, value |-> NULL])
                          ELSE NULL
            /\ nwrites' = Attempted
            /\ UNCHANGED codec

Next ==
    \/ Open
    \/ OpenRW
    \/ Close
    \/ ReadTags
    \/ ReadTagString
    \/ WriteTags
    \/ WriteCachedTags
    \/ SetTagString
    \/ RemoveTag

Spec == Init /\ [][Next]_vars

(***************************************************************************)
(* The codec on its own: a collection is serialized into a Tags element    *)
(* and the element is parsed back.                                         *)
(***************************************************************************)
SeqsUpTo(S, n) == UNION { [1..k -> S] : k \in 0..n }

LanguageEn == << 101, 110 >>         \* "en"
TargetTypeStr == << 84 >>            \* "T"

CodecSimpleTags ==
    { SimpleTag(NameA, ValueX),
      [SimpleTag(NameB, ValueYY) EXCEPT !.language = Some(LanguageEn), !.is_default = 0],
      [NewSimpleTag EXCEPT !.name = Some(NameB), !.binary = Some(<< 1, 2 >>),
                           !.is_default = 1],
      [SimpleTag(NameA, ValueYY) EXCEPT
          !.nested = << SimpleTag(NameB, ValueX), SimpleTag(NameLowerA, ValueX) >>] }

CodecTargets ==
    { TagOf(MKVTAG_TARGET_ALBUM, << >>),
      [TagOf(MKVTAG_TARGET_TRACK, << >>) EXCEPT
          !.target_type_str = Some(TargetTypeStr), !.track_uids = << 1 >>],
      [TagOf(MKVTAG_TARGET_ALBUM, << >>) EXCEPT
          !.edition_uids = << 2 >>, !.chapter_uids = << 3 >>,
          !.attachment_uids = << 4, 300 >>] }

CodecTags ==
    { [t EXCEPT !.simple_tags = st] :
        t \in CodecTargets, st \in SeqsUpTo(CodecSimpleTags, MaxCodecSimple) }

CodecCollections == SeqsUpTo(CodecTags, MaxCodecTags)

CodecInit ==
    /\ codec \in { [phase |-> "input", c |-> c, bytes |-> << >>, parsed |-> << >>] :
                     c \in CodecCollections }
    /\ file = << >>
    /\ ctx = mkvtag_create
    /\ last = NoCall
    /\ pending = NULL
    /\ written = NothingWritten
    /\ nwrites = 0

\* mkv_tags_serialize, wrapped in a Tags header as write_tags_at wraps it
CodecSerialize ==
    /\ codec.phase = "input"
    /\ codec' = [codec EXCEPT !.phase = "serialized", !.bytes = TagsElement(codec.c)]
    /\ UNCHANGED << file, ctx, last, pending, written, nwrites >>

\* mkv_tags_parse of the element that starts the byte string
CodecParse ==
    /\ codec.phase = "serialized"
    /\ codec' = [codec EXCEPT
           !.phase = "parsed",
           !.parsed = mkv_tags_parse(codec.bytes,
                                     ebml_read_element_header(codec.bytes, 0))]
    /\ UNCHANGED << file, ctx, last, pending, written, nwrites >>

CodecNext ==
    \/ CodecSerialize
    \/ CodecParse

CodecSpec == CodecInit /\ [][CodecNext]_vars

(***************************************************************************)
(* The specification of the EBML primitives: a VINT is encoded and decoded *)
(* again, a Void element of a given total size is written.                 *)
(***************************************************************************)
EbmlInit ==
    /\ codec \in
         { [phase |-> "value", value |-> [EBML_VINT_MAX(length) EXCEPT ![8] = @ + d]] :
               length \in 1..8, d \in -1..1 }
         \cup { [phase |-> "value",
                 value |-> [i \in 1..8 |-> IF i = 8 - (7 * length) \div 8
                                           THEN 2^((7 * length) % 8) ELSE 0]] :
                    length \in 1..8 }
         \cup { [phase |-> "value", value |-> [i \in 1..8 |-> b]] : b \in { 0, 1, 255 } }
         \cup { [phase |-> "size", total_size |-> total_size] :
                    total_size \in (0..MaxVoidSize)
                        \cup ((EBML_VINT_MAX_2 + 2)..(EBML_VINT_MAX_2 + 5)) }
    /\ file = << >>
    /\ ctx = mkvtag_create
    /\ last = NoCall
    /\ pending = NULL
    /\ written = NothingWritten
    /\ nwrites = 0

VintRoundTrip ==
    /\ codec.phase = "value"
    /\ \E enc \in { ebml_vint_encode_u64(codec.value) } :
           codec' = [phase |-> "decoded", value |-> codec.value, encoded |-> enc,
                     decoded |-> IF enc.err = MKVTAG_OK
                                 THEN ebml_vint_decode_u64(enc.data)
                                 ELSE [err |-> enc.err]]
    /\ UNCHANGED << file, ctx, last, pending, written, nwrites >>

WriteVoid ==
    /\ codec.phase = "size"
    /\ codec' = [phase |-> "void", total_size |-> codec.total_size,
                 void_buf |-> ebml_write_void_element(codec.total_size)]
    /\ UNCHANGED << file, ctx, last, pending, written, nwrites >>

EbmlSpec == EbmlInit /\ [][VintRoundTrip \/ WriteVoid]_vars

(***************************************************************************)
(* Properties                                                              *)
(***************************************************************************)
IsWriteCall == last.op \in { "write_tags", "set_tag_string", "remove_tag" }

\* The last call was a write on an open, writable context
WriteAttempted == IsWriteCall /\ last.ctx.is_open /\ last.ctx.is_writable

\* The last call is a read_tag_string that follows a successful
\* set_tag_string on the same context, for a name equal ignoring case
ReadAfterSet ==
    /\ last.op = "read_tag_string"
    /\ ~IsNull(pending)
    /\ str_casecmp_eq(last.name, Deref(pending).name)

\* C1: after set_tag_string(name, value) with a value returned OK, a
\* following read_tag_string of the name (in any case) returns OK with
\* exactly that value, whatever the file held before.
C1_SetThenRead ==
    (ReadAfterSet /\ ~IsNull(Deref(pending).value))
        => (last.err = MKVTAG_OK /\ last.value = Deref(pending).value)

\* C2: after set_tag_string(name, NULL) / remove_tag(name) returned OK, a
\* following read_tag_string of the name returns TagNotFound, whatever the
\* file held before.
C2_RemoveThenRead ==
    (ReadAfterSet /\ IsNull(Deref(pending).value))
        => last.err = MKVTAG_ERR_TAG_NOT_FOUND

\* C3: after a write that returned OK, closing, re-opening and read_tags
\* returns OK with a collection equal to the one written, whatever the
\* layout and the strategy.
C3_ReopenReadsWritten ==
    (last.op = "read_tags" /\ written.stage = "reopened")
        => (last.err = MKVTAG_OK /\ last.tags = written.tags)

\* C4: on a context opened read-only, set_tag_string, remove_tag and
\* write_tags return ReadOnly and leave the file, the structure record and
\* the cached collection as they were.
C4_ReadOnlyRefused ==
    (IsWriteCall /\ last.ctx.is_open /\ ~last.ctx.is_writable)
        => (/\ last.err = MKVTAG_ERR_READ_ONLY
            /\ file = last.f
            /\ ctx.mkv = last.ctx.mkv
            /\ ctx.cached_tags = last.ctx.cached_tags)

\* A write_tags refused on a read-only context that holds a cached
\* collection and knows a Tags element
C4_Witness ==
    /\ last.op = "write_tags"
    /\ last.ctx.is_open /\ ~last.ctx.is_writable
    /\ ~IsNull(last.ctx.cached_tags)
    /\ last.ctx.mkv.tags_offset >= 0
    /\ last.err = MKVTAG_ERR_READ_ONLY

\* The offsets at which two files differ, or that only the longer one has
ChangedOffsets(before, after) ==
    { p \in 0..(Len(after) - 1) : p >= Len(before) \/ before[p + 1] # after[p + 1] }

RECURSIVE SeekChildOffsets(_, _, _)
\* The bytes of a Seek entry from pos on, without the content of its
\* SeekPosition child
SeekChildOffsets(f, seek_elem, pos) ==
    IF pos >= seek_elem.end_offset THEN {}
    ELSE LET child == ebml_read_element_header(f, pos) IN
         IF child.err # MKVTAG_OK THEN pos..(seek_elem.end_offset - 1)
         ELSE (IF child.id = MKV_ID_SEEK_POSITION THEN pos..(child.data_offset - 1)
               ELSE pos..(child.end_offset - 1))
              \cup SeekChildOffsets(f, seek_elem, child.end_offset)

\* Whether the Seek entry names the Tags element
IsTagsSeek(f, seek_elem) ==
    UpdateEntryLoop(f, seek_elem, seek_elem.data_offset,
                    [seek_id |-> 0, position_data_offset |-> -1,
                     position_data_size |-> 0, pos |-> 0]).seek_id = MKV_ID_TAGS

RECURSIVE SeekHeadOffsets(_, _, _)
\* The bytes of a SeekHead from pos on, without the SeekPosition content of
\* its Tags entries
SeekHeadOffsets(f, seekhead, pos) ==
    IF pos >= seekhead.end_offset THEN {}
    ELSE LET seek_elem == ebml_read_element_header(f, pos) IN
         IF seek_elem.err # MKVTAG_OK THEN pos..(seekhead.end_offset - 1)
         ELSE (IF seek_elem.id = MKV_ID_SEEK /\ IsTagsSeek(f, seek_elem)
               THEN pos..(seek_elem.data_offset - 1)
                    \cup SeekChildOffsets(f, seek_elem, seek_elem.data_offset)
               ELSE pos..(seek_elem.end_offset - 1))
              \cup SeekHeadOffsets(f, seekhead, seek_elem.end_offset)

RECURSIVE OtherElementOffsets(_, _, _)
\* The bytes of the Segment children from pos to segment_end that belong
\* to elements other than Tags and Void; a zero byte where a header is due
\* is padding and belongs to no element.
OtherElementOffsets(f, pos, segment_end) ==
    IF pos >= segment_end \/ pos >= Len(f) THEN {}
    ELSE LET elem == ebml_read_element_header(f, pos) IN
         IF elem.err # MKVTAG_OK
         THEN IF f[pos + 1] = 0 THEN OtherElementOffsets(f, pos + 1, segment_end)
              ELSE {}
         ELSE (CASE elem.id = MKV_ID_TAGS \/ elem.id = EBML_ID_VOID -> {}
                 [] elem.id = MKV_ID_SEEKHEAD ->
                      pos..(elem.data_offset - 1)
                      \cup SeekHeadOffsets(f, elem, elem.data_offset)
                 [] OTHER -> pos..(elem.end_offset - 1))
              \cup OtherElementOffsets(f, elem.end_offset, segment_end)

\* Where the Segment content ends according to a structure record
SegmentEnd(f, mkv) ==
    IF mkv.segment_unknown_size THEN Len(f)
    ELSE mkv.segment_data_offset + mkv.segment_size

\* The bytes a write must leave alone: the EBML header, the Segment ID and
\* every Segment child that is neither Tags nor Void, save the
\* SeekPosition content of the SeekHead's Tags entry
FrameOffsets(f, mkv) ==
    (0..(mkv.segment_offset + ebml_id_size(MKV_ID_SEGMENT) - 1))
    \cup OtherElementOffsets(f, mkv.segment_data_offset, SegmentEnd(f, mkv))

\* C5: a write changes only bytes of an existing Tags element, of a Void,
\* of the Segment size, of the SeekPosition of the Tags Seek entry or past
\* the Segment end; every byte of any other element is unchanged, also
\* when tags_offset came from a SeekHead entry.
C5_OtherElementsUntouched ==
    WriteAttempted
        => ChangedOffsets(last.f, file) \cap FrameOffsets(last.f, last.ctx.mkv) = {}

RECURSIVE CountTags(_, _, _)
\* The number of Tags elements among the Segment children from pos on
CountTags(f, pos, segment_end) ==
    IF pos >= segment_end \/ pos >= Len(f) THEN 0
    ELSE LET elem == ebml_read_element_header(f, pos) IN
         IF elem.err # MKVTAG_OK
         THEN IF f[pos + 1] = 0 THEN CountTags(f, pos + 1, segment_end) ELSE 0
         ELSE (IF elem.id = MKV_ID_TAGS THEN 1 ELSE 0)
              + CountTags(f, elem.end_offset, segment_end)

\* C6: after a write that returned OK the Segment holds exactly one Tags
\* element, the new one; an older one was overwritten or turned into a Void.
C6_OneTagsElement ==
    (WriteAttempted /\ last.err = MKVTAG_OK)
        => (/\ CountTags(file, ctx.mkv.segment_data_offset,
                         SegmentEnd(file, ctx.mkv)) = 1
            /\ ebml_read_element_header(file, ctx.mkv.tags_offset).id = MKV_ID_TAGS)

\* The names of a list of simple tags, in list order
NamesIn(stags) == [j \in 1..Len(stags) |-> stags[j].name]

\* The names of the nested children of each simple tag of a list
NestedNamesIn(stags) == [j \in 1..Len(stags) |-> NamesIn(stags[j].nested)]

\* C7: parsing yields, for every tag, its simple tags (and their nested
\* children) in the order of their SimpleTag elements in the file, which
\* is the order of the collection that was serialized.
C7_FileOrderKept ==
    codec.phase = "parsed"
        => (/\ Len(codec.parsed) = Len(codec.c)
            /\ \A i \in 1..Len(codec.c) :
                  /\ NamesIn(codec.parsed[i].simple_tags) = NamesIn(codec.c[i].simple_tags)
                  /\ NestedNamesIn(codec.parsed[i].simple_tags)
                         = NestedNamesIn(codec.c[i].simple_tags))

\* C8: for every collection c, parsing the serialized c wrapped in a Tags
\* header yields a collection equal to c.
C8_RoundTrip ==
    codec.phase = "parsed" => codec.parsed = codec.c

\* The total size W of the Tags element the last write had to place
W == Len(TagsElement(Deref(last.tags)))

\* An in-place slot exists where the last write started: a recorded
\* tags_offset with a readable element header
HasSlot ==
    /\ last.ctx.mkv.tags_offset >= 0
    /\ ebml_read_element_header(last.f, last.ctx.mkv.tags_offset).err = MKVTAG_OK

\* Its size S
S == InPlaceSlot(last.f, last.ctx.mkv)

\* A largest-Void record exists where the last write started
HasVoid == last.ctx.mkv.void_offset >= 0 /\ last.ctx.mkv.void_size > 0

\* Its size V
V == last.ctx.mkv.void_size

FitsInPlace == HasSlot /\ W <= S
FitsVoid == HasVoid /\ W <= V

\* C9: the strategies are tried in the order in-place, largest Void,
\* append, and the first that fits commits: W <= S writes at the unchanged
\* tags_offset even when a larger Void exists; the largest Void is used
\* only when W > S (or there is no Tags) and W <= V, and tags_offset
\* becomes void_offset; append is used only when both were rejected.
C9_StrategyOrder ==
    WriteAttempted
        => (/\ FitsInPlace
                 => (/\ last.err = MKVTAG_OK
                     /\ last.strategy = InPlace
                     /\ ctx.mkv.tags_offset = last.ctx.mkv.tags_offset)
            /\ (~FitsInPlace /\ FitsVoid)
                 => (/\ last.err = MKVTAG_OK
                     /\ last.strategy = IntoVoid
                     /\ ctx.mkv.tags_offset = last.ctx.mkv.void_offset)
            /\ last.strategy = InPlace => FitsInPlace
            /\ last.strategy = IntoVoid => (~FitsInPlace /\ FitsVoid)
            /\ last.strategy = AtEnd => (~FitsInPlace /\ ~FitsVoid))

\* A write committed in place although a larger Void was recorded that
\* would have held the Tags as well
C9_Witness ==
    /\ WriteAttempted
    /\ last.strategy = InPlace
    /\ HasVoid /\ V > S
    /\ last.ctx.mkv.void_offset # last.ctx.mkv.tags_offset

\* C10: when a write returns NoSpace no byte of the file was written, and
\* the file size, tags_offset, segment_size and the Void record are as
\* before the call.
C10_NoSpaceLeavesFile ==
    (IsWriteCall /\ last.err = MKVTAG_ERR_NO_SPACE)
        => (/\ file = last.f
            /\ ctx.mkv.tags_offset = last.ctx.mkv.tags_offset
            /\ ctx.mkv.segment_size = last.ctx.mkv.segment_size
            /\ ctx.mkv.void_offset = last.ctx.mkv.void_offset
            /\ ctx.mkv.void_size = last.ctx.mkv.void_size)

\* A write_tags that all three strategies rejected: the Tags exceed the
\* in-place slot and the grown Segment size does not fit its VINT
C10_Witness ==
    /\ last.op = "write_tags"
    /\ last.err = MKVTAG_ERR_NO_SPACE
    /\ HasSlot /\ W > S
    /\ ~last.ctx.mkv.segment_unknown_size

\* What Strategy 1 returns for the last write, started where the write started
S1 == try_replace_existing_tags(last.f, last.ctx.mkv, Deref(last.tags))

\* Strategy 1 was attempted and failed with an error other than NoSpace
S1Irrecoverable ==
    /\ WriteAttempted
    /\ last.ctx.mkv.tags_offset >= 0
    /\ S1.err # MKVTAG_OK
    /\ S1.err # MKVTAG_ERR_NO_SPACE

\* What Strategy 2 returns for the last write once Strategy 1 gave way
S2 == try_replace_void(last.f, last.ctx.mkv, Deref(last.tags))

\* Strategy 2 was attempted and failed with an error other than NoSpace
S2Irrecoverable ==
    /\ WriteAttempted
    /\ last.ctx.mkv.tags_offset < 0 \/ S1.err = MKVTAG_ERR_NO_SPACE
    /\ S2.err # MKVTAG_OK
    /\ S2.err # MKVTAG_ERR_NO_SPACE

\* C11: when Strategy 1 or Strategy 2 fails with an error other than
\* NoSpace, write_tags returns that error and no later strategy is
\* attempted; only NoSpace or a missing Tags / Void moves on.
C11_FirstFailureReported ==
    /\ S1Irrecoverable => (last.err = S1.err /\ last.strategy = NoStrategy)
    /\ S2Irrecoverable => (last.err = S2.err /\ last.strategy = NoStrategy)

\* The largest value a VINT of L bytes holds besides the reserved all-ones
VintMax(L) == 2^(7 * L) - 2

\* Where the Segment size VINT starts, and its length before the last call
SizeOffset == last.ctx.mkv.segment_offset + ebml_id_size(MKV_ID_SEGMENT)
SizeLength == ebml_vint_length(last.f[SizeOffset + 1])

\* The Segment header bytes are as they were before the last call
SegmentHeaderKept ==
    \A p \in last.ctx.mkv.segment_offset..(last.ctx.mkv.segment_data_offset - 1) :
        file[p + 1] = last.f[p + 1]

\* The last write got as far as Strategy 3
AppendTried == WriteAttempted /\ last.strategy # InPlace /\ last.strategy # IntoVoid

C13_AppendGrowsByW ==
    (WriteAttempted /\ last.strategy = AtEnd)
        => (/\ Len(file) = Len(last.f) + W
            /\ ctx.mkv.tags_offset = SegmentEnd(last.f, last.ctx.mkv)
            /\ ReadBytes(file, ctx.mkv.tags_offset, W) = TagsElement(Deref(last.tags)))

\* The slot of the last write: the S bytes from tags_offset on
SlotOffsets == last.ctx.mkv.tags_offset..(last.ctx.mkv.tags_offset + S - 1)

\* The slot holds the new Tags element and, behind it, padding up to its
\* end: a Void element, a single zero byte, or nothing
SlotFilled ==
    /\ ReadBytes(file, last.ctx.mkv.tags_offset, W) = TagsElement(Deref(last.tags))
    /\ CASE S - W >= 2 ->
              LET pad == ebml_read_element_header(file, last.ctx.mkv.tags_offset + W)
              IN /\ pad.err = MKVTAG_OK
                 /\ pad.id = EBML_ID_VOID
                 /\ pad.end_offset = last.ctx.mkv.tags_offset + S
         [] S - W = 1 -> file[last.ctx.mkv.tags_offset + W + 1] = 0
         [] OTHER -> TRUE

\* C14: when Strategy 1 commits, the file size and tags_offset are as
\* before the call and exactly the S bytes of the slot at tags_offset are
\* written: the new Tags element and padding up to the end of the slot.
C14_InPlaceKeepsLayout ==
    (WriteAttempted /\ last.strategy = InPlace)
        => (/\ Len(file) = Len(last.f)
            /\ ctx.mkv.tags_offset = last.ctx.mkv.tags_offset
            /\ SlotFilled
            /\ ChangedOffsets(last.f, file) \subseteq SlotOffsets)

\* An in-place write of a Tags element shorter than a slot made of the old
\* Tags element and the Void behind it
C14_Witness ==
    /\ WriteAttempted
    /\ last.strategy = InPlace
    /\ S - W >= 2
    /\ S > ebml_read_element_header(last.f, last.ctx.mkv.tags_offset).end_offset
           - last.ctx.mkv.tags_offset
    /\ ChangedOffsets(last.f, file) # {}

RECURSIVE TagsSeekEntry(_, _, _)
\* The first Seek entry of a SeekHead, from pos on, that names the Tags ID
\* and has a SeekPosition; position_data_offset is -1 when there is none
TagsSeekEntry(f, seekhead, pos) ==
    LET none == [seek_id |-> 0, position_data_offset |-> -1,
                 position_data_size |-> 0, pos |-> 0]
    IN IF pos >= seekhead.end_offset THEN none
       ELSE LET seek_elem == ebml_read_element_header(f, pos) IN
            IF seek_elem.err # MKVTAG_OK THEN none
            ELSE LET e == UpdateEntryLoop(f, seek_elem, seek_elem.data_offset, none) IN
                 IF seek_elem.id = MKV_ID_SEEK /\ e.seek_id = MKV_ID_TAGS
                    /\ e.position_data_offset >= 0 /\ e.position_data_size > 0
                 THEN e
                 ELSE TagsSeekEntry(f, seekhead, seek_elem.end_offset)

\* The SeekHead of the file the last call started on
OldSeekHead == ebml_read_element_header(last.f, last.ctx.mkv.seekhead_offset)

\* Its Tags entry
OldTagsEntry == TagsSeekEntry(last.f, OldSeekHead, OldSeekHead.data_offset)

\* The last call was a successful write on a file with a SeekHead
WroteWithSeekHead ==
    /\ WriteAttempted
    /\ last.err = MKVTAG_OK
    /\ last.ctx.mkv.seekhead_offset >= 0
    /\ OldSeekHead.err = MKVTAG_OK
    /\ OldSeekHead.id = MKV_ID_SEEKHEAD

\* Where the Tags are after the last call, relative to the Segment content
NewPosition == ctx.mkv.tags_offset - ctx.mkv.segment_data_offset

\* C15: after a successful write on a file whose SeekHead has a Tags entry
\* with a SeekPosition of w bytes, when tags_offset - segment_data_offset
\* < 2^(8w) the SeekPosition content decodes big-endian to that value; the
\* SeekPosition keeps its width, the SeekHead its size, and every other byte
\* of the SeekHead is unchanged.  Without a Tags entry the SeekHead bytes
\* are unchanged.
C15_SeekPositionUpdated ==
    WroteWithSeekHead
        => (/\ \A p \in (last.ctx.mkv.seekhead_offset..(OldSeekHead.data_offset - 1))
                        \cup SeekHeadOffsets(last.f, OldSeekHead, OldSeekHead.data_offset) :
                   file[p + 1] = last.f[p + 1]
            /\ (/\ OldTagsEntry.position_data_offset >= 0
                /\ NewPosition < 2^(8 * OldTagsEntry.position_data_size))
                 => FromBigEndian(ReadBytes(file, OldTagsEntry.position_data_offset,
                                            OldTagsEntry.position_data_size))
                        = NewPosition
            /\ OldTagsEntry.position_data_offset < 0
                 => ReadBytes(file, last.ctx.mkv.seekhead_offset,
                              OldSeekHead.end_offset - last.ctx.mkv.seekhead_offset)
                    = ReadBytes(last.f, last.ctx.mkv.seekhead_offset,
                                OldSeekHead.end_offset - last.ctx.mkv.seekhead_offset))

\* A write that moved the Tags and changed the SeekPosition of the Tags
\* entry of a SeekHead that holds another entry in front of it
C15_Witness ==
    /\ WroteWithSeekHead
    /\ OldTagsEntry.position_data_offset >= 0
    /\ ctx.mkv.tags_offset # last.ctx.mkv.tags_offset
    /\ file[OldTagsEntry.position_data_offset + 1]
           # last.f[OldTagsEntry.position_data_offset + 1]
    /\ ebml_read_element_header(last.f, OldSeekHead.data_offset).end_offset
           < OldTagsEntry.position_data_offset

\* The context a later open of the file as it is now yields
Reopened == mkvtag_open(Some(file), mkvtag_close(ctx))

\* The last write moved the Tags and left the SeekPosition of the Tags
\* entry alone because the new position does not fit its width
SeekUpdateSkipped ==
    /\ WroteWithSeekHead
    /\ OldTagsEntry.position_data_offset >= 0
    /\ ctx.mkv.tags_offset # last.ctx.mkv.tags_offset
    /\ NewPosition >= 2^(8 * OldTagsEntry.position_data_size)

\* C16: when a successful write moved the Tags and the SeekHead update was
\* skipped because the new position does not fit the SeekPosition width, a
\* later open still locates the new Tags: tags_offset is the new position
\* and read_tags returns the written collection.
C16_ReopenAfterSkippedUpdate ==
    SeekUpdateSkipped
        => (/\ Reopened.err = MKVTAG_OK
            /\ Reopened.ctx.mkv.tags_offset = ctx.mkv.tags_offset
            /\ LET r == mkvtag_read_tags(file, Reopened.ctx)
               IN r.err = MKVTAG_OK /\ r.tags = last.tags)

\* C17: in every state of an open context with a recorded tags_offset, the
\* file bytes at tags_offset begin with the Tags element ID, whether the
\* offset came from the scan of the Segment or from a SeekHead entry.
C17_TagsOffsetNamesTags ==
    (ctx.is_open /\ ctx.mkv.tags_offset >= 0)
        => (/\ CanRead(file, ctx.mkv.tags_offset, ebml_id_size(MKV_ID_TAGS))
            /\ ReadBytes(file, ctx.mkv.tags_offset, ebml_id_size(MKV_ID_TAGS))
                   = ebml_id_encode(MKV_ID_TAGS))

\* The Tags element recorded at tags_offset spans [tags_offset, its end)
TagsSpan ==
    IF ctx.mkv.tags_offset < 0 THEN {}
    ELSE LET tags_element == ebml_read_element_header(file, ctx.mkv.tags_offset)
         IN IF tags_element.err # MKVTAG_OK THEN {}
            ELSE ctx.mkv.tags_offset..(tags_element.end_offset - 1)

\* C18: in every state of an open context, a recorded largest Void names
\* file bytes that are a Void element of total size void_size inside the
\* Segment, and its range does not overlap the Tags element at tags_offset.
C18_VoidRecordValid ==
    (ctx.is_open /\ ctx.mkv.void_offset >= 0)
        => LET void_element == ebml_read_element_header(file, ctx.mkv.void_offset)
           IN /\ void_element.err = MKVTAG_OK
              /\ void_element.id = EBML_ID_VOID
              /\ void_element.end_offset - ctx.mkv.void_offset = ctx.mkv.void_size
              /\ ctx.mkv.void_offset >= ctx.mkv.segment_data_offset
              /\ void_element.end_offset <= SegmentEnd(file, ctx.mkv)
              /\ (ctx.mkv.void_offset..(ctx.mkv.void_offset + ctx.mkv.void_size - 1))
                     \cap TagsSpan = {}

\* What parsing the Tags element recorded in the context yields now
ParsedNow ==
    Some(mkv_tags_parse(file, ebml_read_element_header(file, ctx.mkv.tags_offset)))

Existing == mkvtag_read_tags(last.f, last.ctx)

\* The simple tags of a tag that set_tag_string(name, ...) has no business
\* with: all of them in a tag that is not album-level, those with another
\* name in an album-level tag
OtherSimpleTags(tag, name) ==
    LET Other(stag) ==
            ~(/\ tag.target_type = MKVTAG_TARGET_ALBUM
              /\ ~IsNull(stag.name)
              /\ str_casecmp_eq(Deref(stag.name), name))
    IN SelectSeq(tag.simple_tags, Other)

\* The last call was a set_tag_string / remove_tag that copied a collection
CopiedExisting ==
    /\ WriteAttempted
    /\ last.op \in { "set_tag_string", "remove_tag" }
    /\ Existing.err = MKVTAG_OK
    /\ ~IsNull(Existing.tags)

\* C20: set_tag_string(name, v) writes a copy of the existing collection
\* that differs only in the album-level simple tags named name: every tag
\* keeps its target type, target-type string and its four UID lists, and
\* every other simple tag keeps name, value, binary, language, default
\* flag and nested children.
C20_CopyKeepsTheRest ==
    CopiedExisting
        => LET existing == Deref(Existing.tags)
               working == Deref(last.tags)
           IN /\ Len(working) >= Len(existing)
              /\ \A i \in 1..Len(existing) :
                    /\ working[i].target_type = existing[i].target_type
                    /\ working[i].target_type_str = existing[i].target_type_str
                    /\ working[i].track_uids = existing[i].track_uids
                    /\ working[i].edition_uids = existing[i].edition_uids
                    /\ working[i].chapter_uids = existing[i].chapter_uids
                    /\ working[i].attachment_uids = existing[i].attachment_uids
                    /\ OtherSimpleTags(working[i], last.name)
                           = OtherSimpleTags(existing[i], last.name)
              /\ \A i \in (Len(existing) + 1)..Len(working) :
                    /\ working[i].target_type = MKVTAG_TARGET_ALBUM
                    /\ OtherSimpleTags(working[i], last.name) = << >>

\* Some simple tag of the collection has the name, ignoring case
HoldsName(collection, name) ==
    \E i \in 1..Len(collection) :
        \E j \in 1..Len(collection[i].simple_tags) :
            /\ ~IsNull(collection[i].simple_tags[j].name)
            /\ str_casecmp_eq(Deref(collection[i].simple_tags[j].name), name)

\* The file the last call started on holds a simple tag with the name of
\* the call
FileHoldsName ==
    /\ Existing.err = MKVTAG_OK
    /\ ~IsNull(Existing.tags)
    /\ HoldsName(Deref(Existing.tags), last.name)

\* C21: remove_tag(name) returns TagNotFound when the file holds no simple
\* tag with that name, also when it has no Tags element at all, and returns
\* OK only when a tag was actually removed.
C21_RemoveReportsMissing ==
    (WriteAttempted /\ last.op = "remove_tag")
        => (/\ ~FileHoldsName => last.err = MKVTAG_ERR_TAG_NOT_FOUND
            /\ last.err = MKVTAG_OK
                 => (FileHoldsName /\ Deref(last.tags) # Deref(Existing.tags)))

\* The first element of the file
FirstElement == ebml_read_element_header(file, 0)

RECURSIVE DocTypeIn(_, _, _)
\* The content of the first DocType child that lies inside the element
\* header, from pos on, without trailing zero bytes; NULL when there is none
DocTypeIn(f, header, pos) ==
    IF pos >= header.end_offset THEN NULL
    ELSE LET child == ebml_read_element_header(f, pos) IN
         IF child.err # MKVTAG_OK \/ child.is_unknown_size
            \/ child.end_offset > header.end_offset
         THEN NULL
         ELSE IF child.id = EBML_ID_DOCTYPE
         THEN Some(CString(ReadBytes(f, child.data_offset, child.size)))
         ELSE DocTypeIn(f, header, child.end_offset)

FirstIsEbml == FirstElement.err = MKVTAG_OK /\ FirstElement.id = EBML_ID_EBML

DocTypeKnown ==
    DocTypeIn(file, FirstElement, FirstElement.data_offset)
        \in { Some(DocTypeMatroska), Some(DocTypeWebm) }

\* The element that starts where the EBML header ends is the Segment
SegmentSecond ==
    LET second == ebml_read_element_header(file, FirstElement.end_offset)
    IN second.err = MKVTAG_OK /\ second.id = MKV_ID_SEGMENT

\* The last call was an open on a closed context
OpenTried == last.op \in { "open", "open_rw" } /\ ~last.ctx.is_open

\* C22: open returns OK only for a file whose first element is the EBML
\* header with DocType "matroska" or "webm" and whose second top-level
\* element, at the EBML header's end offset, is the Segment; a first
\* element that is not an EBML header yields NotEBML, a wrong DocType or a
\* missing Segment NotMKV.
C22_OpenValidates ==
    OpenTried
        => (/\ last.err = MKVTAG_OK => (FirstIsEbml /\ DocTypeKnown /\ SegmentSecond)
            /\ ~FirstIsEbml => last.err = MKVTAG_ERR_NOT_EBML
            /\ (FirstIsEbml /\ ~(DocTypeKnown /\ SegmentSecond))
                 => last.err = MKVTAG_ERR_NOT_MKV)

\* C23: for every v in [0, 2^56 - 2] decoding the bytes of
\* ebml_vint_encode(v) yields v and a consumed length of ebml_vint_size(v),
\* and the decoded value is not classified as the unknown size;
\* ebml_vint_encode rejects every v > 2^56 - 2 with VintOverflow.
C23_VintRoundTrip ==
    codec.phase = "decoded"
        => IF U64LessEq(codec.value, EBML_VINT_MAX(8))
           THEN /\ codec.encoded.err = MKVTAG_OK
                /\ codec.decoded.err = MKVTAG_OK
                /\ codec.decoded.value = codec.value
                /\ codec.decoded.bytes_read = ebml_vint_size_u64(codec.value)
                /\ Len(codec.encoded.data) = codec.decoded.bytes_read
                /\ ~ebml_vint_is_unknown_u64(codec.decoded.value,
                                             codec.decoded.bytes_read)
           ELSE codec.encoded.err = MKVTAG_ERR_VINT_OVERFLOW

\* The round trip of 2^35 - 1, the value one above EBML_VINT_MAX_5, all of
\* whose data bits are set when it is held in five bytes: six bytes are used
C23_Witness ==
    /\ codec.phase = "decoded"
    /\ ebml_vint_is_unknown_u64(codec.value, 5)
    /\ codec.decoded.err = MKVTAG_OK
    /\ codec.decoded.bytes_read = 6

\* C26: for every total size T >= 2 ebml_write_void_element appends exactly
\* T bytes: the ID 0xEC, a size VINT of some length L in 1..8 that decodes
\* to T - 1 - L, and T - 1 - L zero bytes, which parse as one Void element
\* of total span T; for T < 2 it returns InvalidArg and appends nothing.
C26_VoidHasTotalSize ==
    codec.phase = "void"
        => IF codec.total_size < 2
           THEN /\ codec.void_buf.err = MKVTAG_ERR_INVALID_ARG
                /\ DOMAIN codec.void_buf = { "err" }
           ELSE /\ codec.void_buf.err = MKVTAG_OK
                /\ Len(codec.void_buf.data) = codec.total_size
                /\ codec.void_buf.data[1] = EBML_ID_VOID
                /\ LET elem == ebml_read_element_header(codec.void_buf.data, 0)
                   IN /\ elem.err = MKVTAG_OK
                      /\ elem.id = EBML_ID_VOID
                      /\ elem.size_length \in 1..8
                      /\ elem.size = codec.total_size - 1 - elem.size_length
                      /\ elem.end_offset = codec.total_size
                      /\ \A p \in elem.data_offset..(elem.end_offset - 1) :
                             codec.void_buf.data[p + 1] = 0

\* A Void whose content would fit a one-byte size but whose total size
\* asks for a size of two bytes
C26_Witness ==
    /\ codec.phase = "void"
    /\ codec.void_buf.err = MKVTAG_OK
    /\ ebml_read_element_header(codec.void_buf.data, 0).size_length = 2
    /\ ebml_read_element_header(codec.void_buf.data, 0).size <= EBML_VINT_MAX_1

\* Some simple tag of the sequence, or one nested in it, has no name
RECURSIVE SomeNameless(_)
SomeNameless(stags) ==
    \E j \in 1..Len(stags) :
        IsNull(stags[j].name) \/ SomeNameless(stags[j].nested)

HoldsNameless(collection) ==
    \E i \in 1..Len(collection) : SomeNameless(collection[i].simple_tags)

\* C24: mkvtag_write_tags on an open, writable file with a collection in
\* which some simple tag (top-level or nested) has no name returns an error
\* and leaves the file as it was, so no SimpleTag element without a TagName
\* child is written.
C24_NamelessRejected ==
    ( /\ last.op = "write_tags"
      /\ last.ctx.is_open
      /\ last.ctx.is_writable
      /\ HoldsNameless(Deref(last.tags)) )
        => /\ last.err # MKVTAG_OK
           /\ file = last.f

\* The states a crash or a failed write can leave behind during the append
\* that the last call committed
AppendPrefixes == try_append_tags_writes(last.f, last.ctx.mkv, Deref(last.tags))

\* C25: when Strategy 3 commits on a Segment of known size whose declared
\* content lay within the file, then after every prefix of its writes the
\* Segment header declares no content past the end of the file, and
\* segment_size has grown only if the new Tags bytes are in the file at the
\* previous Segment content end.
C25_AppendOrder ==
    ( /\ WriteAttempted
      /\ last.strategy = AtEnd
      /\ ~last.ctx.mkv.segment_unknown_size
      /\ SegmentEnd(last.f, last.ctx.mkv) <= Len(last.f) )
        => \A k \in 1..Len(AppendPrefixes) :
              LET s == AppendPrefixes[k]
                  segment == ebml_read_element_header(s.f, last.ctx.mkv.segment_offset)
              IN /\ segment.err = MKVTAG_OK
                 /\ segment.data_offset + segment.size <= Len(s.f)
                 /\ (s.mkv.segment_size > last.ctx.mkv.segment_size)
                        => /\ CanRead(s.f, SegmentEnd(last.f, last.ctx.mkv), W)
                           /\ ReadBytes(s.f, SegmentEnd(last.f, last.ctx.mkv), W)
                                = TagsElement(Deref(last.tags))

\* The last prefix is the file the append left, up to the SeekHead update
C25_LastPrefix ==
    ( /\ WriteAttempted
      /\ last.strategy = AtEnd
      /\ last.err = MKVTAG_OK )
        => mkv_seekhead_update_tags(AppendPrefixes[Len(AppendPrefixes)].f, ctx.mkv,
                                    ctx.mkv.tags_offset) = file

\* The walk over the elements of f from pos towards end, header by header:
\* the offsets at which an element header was read, and where the walk
\* stopped (end, or the offset whose header cannot be read or whose
\* element does not end within end)
RECURSIVE Walk(_, _, _)
Walk(f, pos, end) ==
    IF pos >= end THEN [offsets |-> {}, stop |-> pos]
    ELSE LET elem == ebml_read_element_header(f, pos) IN
         IF elem.err # MKVTAG_OK \/ elem.end_offset <= pos \/ elem.end_offset > end
         THEN [offsets |-> {}, stop |-> pos]
         ELSE LET rest == Walk(f, elem.end_offset, end)
              IN [offsets |-> {pos} \cup rest.offsets, stop |-> rest.stop]

\* The Segment children before and after the last call
OldChildren ==
    Walk(last.f, last.ctx.mkv.segment_data_offset, SegmentEnd(last.f, last.ctx.mkv))
NewChildren == Walk(file, ctx.mkv.segment_data_offset, SegmentEnd(file, ctx.mkv))

\* Where the slot the last write filled starts and ends
FilledSlotStart ==
    IF last.strategy = InPlace THEN last.ctx.mkv.tags_offset ELSE last.ctx.mkv.void_offset
FilledSlotEnd == FilledSlotStart + (IF last.strategy = InPlace THEN S ELSE V)

\* The last call committed an in-place write (Strategy 1 or 2) into a
\* Segment whose children were a contiguous sequence of well-formed
\* elements, the slot among them
InPlaceCommitted ==
    /\ WriteAttempted
    /\ last.err = MKVTAG_OK
    /\ last.strategy \in { InPlace, IntoVoid }
    /\ OldChildren.stop = SegmentEnd(last.f, last.ctx.mkv)
    /\ FilledSlotStart \in OldChildren.offsets

\* C27: after a successful in-place write the children of the Segment are
\* still a contiguous sequence of well-formed elements up to the Segment
\* end: the walk from segment_data_offset reaches the new Tags element and
\* every element that followed the slot before the write, at the same
\* offsets, whatever the remainder S - W.
C27_ChildrenStillParse ==
    InPlaceCommitted
        => /\ NewChildren.stop = SegmentEnd(file, ctx.mkv)
           /\ ctx.mkv.tags_offset \in NewChildren.offsets
           /\ \A o \in OldChildren.offsets :
                  o >= FilledSlotEnd => o \in NewChildren.offsets

\* The same for the writes that leave a remainder other than one byte
C27_ExceptOneByte ==
    ( /\ InPlaceCommitted
      /\ FilledSlotEnd - FilledSlotStart - W # 1 )
        => /\ NewChildren.stop = SegmentEnd(file, ctx.mkv)
           /\ ctx.mkv.tags_offset \in NewChildren.offsets
           /\ \A o \in OldChildren.offsets :
                  o >= FilledSlotEnd => o \in NewChildren.offsets

\* C28: when reading the existing tags inside mkvtag_set_tag_string fails
\* with an error other than NoTags, the call returns that error and the
\* file is as it was before the call.
C28_ReadFailureStopsSet ==
    ( /\ last.op \in { "set_tag_string", "remove_tag" }
      /\ WriteAttempted
      /\ Existing.err \notin { MKVTAG_OK, MKVTAG_ERR_NO_TAGS } )
        => /\ last.err = Existing.err
           /\ file = last.f

\* C29: when mkvtag_write_tags is handed the context-owned collection and
\* returns OK, the Tags element at tags_offset has the content of that
\* collection.
C29_CachedCollectionWritten ==
    ( /\ last.op = "write_cached_tags"
      /\ last.err = MKVTAG_OK )
        => /\ CanRead(file, ctx.mkv.tags_offset, W)
           /\ ReadBytes(file, ctx.mkv.tags_offset, W) = TagsElement(Deref(last.tags))

\* The last call was an open or an open_rw
IsOpenCall == last.op \in { "open", "open_rw" }

\* C30: in every state a file handle is held exactly when is_open is set,
\* is_writable implies is_open and a cached collection is held only while
\* is_open; an open that fails on a closed context leaves it closed with
\* no handle; an open on an open context returns AlreadyOpen and leaves
\* the file, the handle, the structure record and the cache as they were;
\* read_tags, write_tags and set_tag_string on a closed context return
\* NotOpen.
C30_ContextLifecycle ==
    /\ ~IsNull(ctx.file) <=> ctx.is_open
    /\ ctx.is_writable => ctx.is_open
    /\ ~IsNull(ctx.cached_tags) => ctx.is_open
    /\ (IsOpenCall /\ ~last.ctx.is_open /\ last.err # MKVTAG_OK)
          => (~ctx.is_open /\ IsNull(ctx.file) /\ IsNull(ctx.cached_tags))
    /\ (IsOpenCall /\ last.ctx.is_open)
          => (last.err = MKVTAG_ERR_ALREADY_OPEN /\ ctx = last.ctx /\ file = last.f)
    /\ (last.op \in { "read_tags", "write_tags", "set_tag_string" } /\ ~last.ctx.is_open)
          => (last.err = MKVTAG_ERR_NOT_OPEN /\ ctx = last.ctx /\ file = last.f)

\* An open on a context that is open for writing and holds a cached
\* collection was refused
C30_Witness ==
    /\ IsOpenCall
    /\ last.err = MKVTAG_ERR_ALREADY_OPEN
    /\ ctx.is_writable
    /\ ~IsNull(ctx.cached_tags)

====
